---- MODULE Spec2Model ----
(***************************************************************************)
(* ZoteroKindleNotes: the importer (importAll, attachNoteToExisting,       *)
(* createBookAndNote, fingerprints), the import wizard that drives it      *)
(* (KindleDialog.startImport / onCancel) and the matcher                   *)
(* (matchBooksToZotero).                                                   *)
(*                                                                         *)
(* Strings are sequences of character codes.  Scores are exact rationals   *)
(* <<numerator, denominator>>; JavaScript computes them as doubles, and     *)
(* for token sets of the sizes used here every threshold comparison of the *)
(* double agrees with the comparison of the exact rational.                *)
(***************************************************************************)
EXTENDS Integers, Sequences, FiniteSets, TLC

VARIABLES
    matchResult,      \* KindleDialog._matchResult: [matched, ambiguous, unmatched]
    lookupResults,    \* KindleDialog._lookupResults
    confirmed,        \* KindleDialog._confirmed: the review decisions
    confirmedBooks,   \* startImport: confirmedBooks
    cancelled,        \* KindleDialog._cancelled
    pc,               \* position of startImport / importAll
    importCollectionID, \* importAll: importCollectionID
    done,             \* importAll: done
    totalWork,        \* importAll: totalWork
    report,           \* importAll: report
    zotero,           \* the catalog behind the api adapter
    calls,            \* collaborator calls issued in this run, in order
    progress,         \* onProgress calls of importAll in this run, in order
    outcomes,         \* per document of this run: what happened to it
    run,              \* number of the current import run
    prev,             \* what the previous run left: its pairs, report, notes
    parsedBooks,      \* matchBooksToZotero: the parsed book map, in insertion order
    zoteroItems,      \* matchBooksToZotero: the catalog snapshot
    mi,               \* matchBooksToZotero: number of books classified so far
    matched,          \* matchBooksToZotero: matched
    ambiguous,        \* matchBooksToZotero: ambiguous
    unmatched,        \* matchBooksToZotero: unmatched
    simA,             \* diceCoefficient / titleSimilarity: first token set
    simB,             \* diceCoefficient / titleSimilarity: second token set
    simResult,        \* what the similarity function called last returned
    blockSpecs,       \* how the blocks of the clippings file were written
    fileContent,      \* parseClippings: fileContent
    rawEntries,       \* parseClippings: rawEntries
    pi,               \* parseClippings: number of raw entries gone through
    bookMap,          \* parseClippings: books, a Map in insertion order
    skipped,          \* parseClippings: skipped
    errors,           \* parseClippings: errors
    parseLog,         \* per raw entry gone through: what became of it
    ppc,              \* position of parseClippings
    lkBook,           \* lookupBook: parsedBook
    lkpc,             \* position of lookupBook
    lkRequests,       \* lookupBook: the network requests made, in order
    lkResult,         \* lookupBook: the returned record
    unmatchedBooks,   \* lookupAllUnmatched: unmatchedBooks
    bi,               \* lookupAllUnmatched: i
    results,          \* lookupAllUnmatched: results
    batchLog,         \* lookupAllUnmatched: calls, returns, callbacks and sleeps, in order
    bpc,              \* position of lookupAllUnmatched
    fpBook,           \* computeFingerprint / buildNoteHTML: parsedBook
    fpShuffled,       \* the same book with its highlights and notes in another order
    fpResult          \* what the fingerprint functions called last returned

importVars == <<matchResult, lookupResults, confirmed, confirmedBooks, cancelled, pc,
                importCollectionID, done, totalWork, report, zotero, calls,
                progress, outcomes, run, prev>>
matchVars == <<parsedBooks, zoteroItems, mi, matched, ambiguous, unmatched>>
simVars == <<simA, simB, simResult>>
parseVars == <<blockSpecs, fileContent, rawEntries, pi, bookMap, skipped, errors, parseLog,
               ppc>>
lookupVars == <<lkBook, lkpc, lkRequests, lkResult>>
batchVars == <<unmatchedBooks, bi, results, batchLog, bpc>>
fpVars == <<fpBook, fpShuffled, fpResult>>
otherVars == <<batchVars, fpVars>>
restVars == <<simVars, parseVars, lookupVars, otherVars>>
vars == <<importVars, matchVars, restVars>>

\* the similarity functions, the parser and the lookup while another part runs
SimIdle ==
    /\ simA = {}
    /\ simB = {}
    /\ simResult = [op |-> "none"]

ParseIdle ==
    /\ blockSpecs = <<>>
    /\ fileContent = <<>>
    /\ rawEntries = <<>>
    /\ pi = 0
    /\ bookMap = <<>>
    /\ skipped = 0
    /\ errors = <<>>
    /\ parseLog = <<>>
    /\ ppc = "idle"

LookupIdle ==
    /\ lkBook = [title |-> <<>>, authors |-> <<>>]
    /\ lkpc = "idle"
    /\ lkRequests = <<>>
    /\ lkResult = [source |-> "none"]

BatchIdle ==
    /\ unmatchedBooks = <<>>
    /\ bi = 0
    /\ results = <<>>
    /\ batchLog = <<>>
    /\ bpc = "idle"

FpIdle ==
    /\ fpBook = [title |-> <<>>, authors |-> <<>>, highlights |-> <<>>, notes |-> <<>>]
    /\ fpShuffled = fpBook
    /\ fpResult = [op |-> "none"]

OtherIdle == BatchIdle /\ FpIdle

(***************************************************************************)
(* Bounds                                                                  *)
(***************************************************************************)
MaxBooks == 2
MaxRuns == 2
MaxCatalog == 6
MaxMatchBooks == 3
MaxComparisons == 6

(***************************************************************************)
(* Characters and strings                                                  *)
(***************************************************************************)
chSpace == 32
chComma == 44
chColon == 58
chBar == 124
chRBrace == 125
chApostrophe == 39

\* the letters the inputs are written in, by character code
Letter == [A |-> 65, a |-> 97, b |-> 98, c |-> 99, n |-> 110, t |-> 116]

NoNum == 0 - 1

Min(a, b) == IF a <= b THEN a ELSE b

RECURSIVE Join(_, _)
Join(strs, sep) ==
    IF Len(strs) = 0 THEN <<>>
    ELSE IF Len(strs) = 1 THEN strs[1]
    ELSE strs[1] \o sep \o Join(Tail(strs), sep)

\* String.prototype.toLowerCase on the ASCII range
toLowerCase(str) ==
    [k \in 1..Len(str) |-> IF str[k] >= 65 /\ str[k] <= 90 THEN str[k] + 32 ELSE str[k]]

\* \s on the ASCII range: tab, line feed, vertical tab, form feed, return, space
isWhitespace(c) == c \in 9..13 \/ c = chSpace

\* str.replace(/\s+/g, " "): every run of white space becomes one space
RECURSIVE collapseWhitespace(_)
collapseWhitespace(str) ==
    IF Len(str) = 0 THEN <<>>
    ELSE IF isWhitespace(str[1])
         THEN IF Len(str) > 1 /\ isWhitespace(str[2])
              THEN collapseWhitespace(Tail(str))
              ELSE <<chSpace>> \o collapseWhitespace(Tail(str))
         ELSE <<str[1]>> \o collapseWhitespace(Tail(str))

RECURSIVE trimStart(_)
trimStart(str) ==
    IF Len(str) > 0 /\ isWhitespace(str[1]) THEN trimStart(Tail(str)) ELSE str

RECURSIVE trimEnd(_)
trimEnd(str) ==
    IF Len(str) > 0 /\ isWhitespace(str[Len(str)])
    THEN trimEnd(SubSeq(str, 1, Len(str) - 1)) ELSE str

trim(str) == trimEnd(trimStart(str))

\* the order of Array.prototype.sort() without comparator: by code units
RECURSIVE strLess(_, _)
strLess(s, t) ==
    IF Len(t) = 0 THEN FALSE
    ELSE IF Len(s) = 0 THEN TRUE
    ELSE IF s[1] # t[1] THEN s[1] < t[1]
    ELSE strLess(Tail(s), Tail(t))

RECURSIVE insertString(_, _)
insertString(sorted, s) ==
    IF Len(sorted) = 0 THEN <<s>>
    ELSE IF strLess(s, sorted[1]) THEN <<s>> \o sorted
    ELSE <<sorted[1]>> \o insertString(Tail(sorted), s)

RECURSIVE sortStrings(_)
sortStrings(strs) ==
    IF Len(strs) = 0 THEN <<>>
    ELSE insertString(sortStrings(SubSeq(strs, 1, Len(strs) - 1)), strs[Len(strs)])

\* template literal `${n}` for a non-negative integer: its decimal digits
RECURSIVE decimal(_)
decimal(n) ==
    IF n < 10 THEN <<48 + n>> ELSE decimal(n \div 10) \o <<48 + (n % 10)>>

\* Number.prototype.toString(16)
RECURSIVE toString16(_)
toString16(n) ==
    LET d == n % 16
        ch == IF d < 10 THEN 48 + d ELSE 87 + d
    IN IF n < 16 THEN <<ch>> ELSE toString16(n \div 16) \o <<ch>>

(***************************************************************************)
(* Fingerprints (importer)                                                 *)
(***************************************************************************)
\* a.locationStart ?? a.page ?? 0
locationKey(clip) ==
    IF clip.locationStart # NoNum THEN clip.locationStart
    ELSE IF clip.page # NoNum THEN clip.page
    ELSE 0

\* stable insertion by the comparator (a, b) => key(a) - key(b)
RECURSIVE insertByLocation(_, _)
insertByLocation(sorted, clip) ==
    IF Len(sorted) = 0 THEN <<clip>>
    ELSE IF locationKey(clip) < locationKey(sorted[Len(sorted)])
         THEN insertByLocation(SubSeq(sorted, 1, Len(sorted) - 1), clip)
              \o <<sorted[Len(sorted)]>>
         ELSE sorted \o <<clip>>

RECURSIVE sortByLocation(_)
sortByLocation(clips) ==
    IF Len(clips) = 0 THEN <<>>
    ELSE insertByLocation(sortByLocation(SubSeq(clips, 1, Len(clips) - 1)),
                          clips[Len(clips)])

\* One turn of the loop of djb2Hash, h = ((h << 5) + h) + c kept to 32 bits.
\* The 32-bit value is carried as <<high half, low half>> of 16 bits each.
Pow2_16 == 65536

djb2Step(h, c) ==
    LET low == h[2] * 33 + c
    IN <<(h[1] * 33 + low \div Pow2_16) % Pow2_16, low % Pow2_16>>

RECURSIVE djb2Fold(_, _)
djb2Fold(h, str) ==
    IF Len(str) = 0 THEN h ELSE djb2Fold(djb2Step(h, str[1]), Tail(str))

\* the four hexadecimal digits of a 16-bit half, leading zeros kept
hex4(n) ==
    LET digit(d) == IF d < 10 THEN 48 + d ELSE 87 + d
    IN <<digit(n \div 4096), digit((n \div 256) % 16), digit((n \div 16) % 16),
         digit(n % 16)>>

\* (h >>> 0).toString(16), h starting at 5381
djb2Hash(str) ==
    LET h == djb2Fold(<<0, 5381>>, str)
    IN IF h[1] = 0 THEN toString16(h[2]) ELSE toString16(h[1]) \o hex4(h[2])

computeFingerprint(parsedBook) ==
    LET allClips == sortByLocation(parsedBook.highlights \o parsedBook.notes)
        hashInput ==
            Join([k \in 1..Len(allClips) |->
                     decimal(locationKey(allClips[k])) \o <<chColon>> \o allClips[k].text],
                 <<chBar>>)
        kindleKey ==
            trim(collapseWhitespace(toLowerCase(parsedBook.title)))
            \o <<chColon, chColon>>
            \o Join(sortStrings([k \in 1..Len(parsedBook.authors) |->
                                    toLowerCase(parsedBook.authors[k])]),
                    <<chComma>>)
    IN [count |-> Len(allClips), hash |-> djb2Hash(hashInput), kindleKey |-> kindleKey]

\* The note's HTML, as far as a later run reads it: whether it carries the
\* "kindle-import-meta" comment, and the JSON text of the fingerprint in it.
buildNoteHTML(parsedBook) ==
    [marker |-> TRUE, meta |-> computeFingerprint(parsedBook)]

\* a note written before fingerprinting: found by its tag, no comment in it
LegacyHTML == [marker |-> FALSE, meta |-> [count |-> 0, hash |-> <<>>, kindleKey |-> <<>>]]

\* FINGERPRINT_COMMENT_RE captures \{[^}]+\}: the capture stops at the first
\* "}" of the text, which closes the JSON object only if no string of the
\* object holds a "}" (count and hash never do, kindleKey may).
FINGERPRINT_COMMENT_RE(html) ==
    html.marker /\ \A k \in 1..Len(html.meta.kindleKey) : html.meta.kindleKey[k] # chRBrace

\* null (ok = FALSE) when the comment is absent or its capture is not JSON
parseNoteFingerprint(html) ==
    IF FINGERPRINT_COMMENT_RE(html)
    THEN [ok |-> TRUE, fp |-> html.meta]
    ELSE [ok |-> FALSE, fp |-> LegacyHTML.meta]

(***************************************************************************)
(* The catalog behind the api adapter (buildZoteroAPI)                     *)
(***************************************************************************)
NumItems == 2
Items == 1..NumItems

IMPORT_COLLECTION_NAME == "Kindle Imports"

Call(op, target) == [op |-> op, target |-> target]

MutatingOps == {"addToCollection", "deleteNote", "createNote", "createBook"}

\* the notes of an item that getKindleNote recognises (comment or legacy tag),
\* in the order item.getNotes() lists them
kindleNotesOf(z, itemID) ==
    SelectSeq(z.notes, LAMBDA n : n.parent = itemID)

getKindleNote(z, itemID) ==
    LET found == kindleNotesOf(z, itemID)
    IN IF Len(found) = 0
       THEN [found |-> FALSE, id |-> 0, html |-> LegacyHTML]
       ELSE [found |-> TRUE, id |-> found[1].id, html |-> found[1].html]

\* deleteNote that erases nothing
deleteNote_erasesNothing(z, noteID) == z

deleteNote(z, noteID) ==
    [z EXCEPT !.notes = SelectSeq(z.notes, LAMBDA n : n.id # noteID)]

createNote(z, parentItemID, html) ==
    [z EXCEPT !.notes = z.notes \o <<[id |-> z.nextID, parent |-> parentItemID,
                                      html |-> html]>>,
              !.nextID = z.nextID + 1]

\* addToCollection that saves nothing
addToCollection_savesNothing(z, itemID, collectionID) == z

addToCollection(z, itemID, collectionID) ==
    [z EXCEPT !.members = z.members \cup {<<itemID, collectionID>>}]

createBook(z, fields) ==
    [z EXCEPT !.books = z.books \o <<[id |-> z.nextID, title |-> fields.title,
                                      authors |-> fields.authors,
                                      collectionID |-> fields.collectionID]>>,
              !.members = IF fields.collectionID # ""
                          THEN z.members \cup {<<z.nextID, fields.collectionID>>}
                          ELSE z.members,
              !.nextID = z.nextID + 1]

getOrCreateCollection(z, name) ==
    [z |-> [z EXCEPT !.collections = z.collections \cup {name}], id |-> name]

(***************************************************************************)
(* attachNoteToExisting and createBookAndNote.  failAt names the           *)
(* collaborator call that throws while this document is processed ("none": *)
(* no call throws); a call that throws changes nothing in the catalog.     *)
(***************************************************************************)
FailPoints == {"none", "getItemID", "addToCollection", "getKindleNote",
               "deleteNote", "createNote", "createBook"}

Threw(z, cs) == [z |-> z, result |-> "threw", calls |-> cs]

\* attachNoteToExisting without the look at the existing note
attachNoteToExisting_noGuard(z, parsedBook, zoteroItem, collectionID, failAt) ==
    [z |-> createNote(addToCollection(z, zoteroItem, collectionID), zoteroItem,
                      buildNoteHTML(parsedBook)),
     result |-> "added",
     calls |-> <<Call("getItemID", zoteroItem), Call("addToCollection", zoteroItem),
                 Call("getKindleNote", zoteroItem), Call("createNote", zoteroItem)>>]

attachNoteToExisting(z, parsedBook, zoteroItem, collectionID, failAt) ==
    LET itemID == zoteroItem
        c1 == <<Call("getItemID", itemID)>>
        c2 == IF collectionID # ""
              THEN c1 \o <<Call("addToCollection", itemID)>> ELSE c1
        z1 == IF collectionID # ""
              THEN addToCollection(z, itemID, collectionID) ELSE z
        c3 == c2 \o <<Call("getKindleNote", itemID)>>
        existingNote == getKindleNote(z1, itemID)
        html == buildNoteHTML(parsedBook)
        currentFP == computeFingerprint(parsedBook)
        storedFP == parseNoteFingerprint(existingNote.html)
        cDel == c3 \o <<Call("deleteNote", existingNote.id)>>
        z2 == deleteNote(z1, existingNote.id)
    IN IF failAt = "getItemID" THEN Threw(z, c1)
       ELSE IF failAt = "addToCollection" /\ collectionID # "" THEN Threw(z, c2)
       ELSE IF failAt = "getKindleNote" THEN Threw(z1, c3)
       ELSE IF ~existingNote.found
       THEN IF failAt = "createNote"
            THEN Threw(z1, c3 \o <<Call("createNote", itemID)>>)
            ELSE [z |-> createNote(z1, itemID, html), result |-> "added",
                  calls |-> c3 \o <<Call("createNote", itemID)>>]
       ELSE IF storedFP.ok /\ storedFP.fp.hash = currentFP.hash
       THEN [z |-> z1, result |-> "skipped", calls |-> c3]
       ELSE IF failAt = "deleteNote" THEN Threw(z1, cDel)
       ELSE IF failAt = "createNote"
       THEN Threw(z2, cDel \o <<Call("createNote", itemID)>>)
       ELSE [z |-> createNote(z2, itemID, html), result |-> "updated",
             calls |-> cDel \o <<Call("createNote", itemID)>>]

createBookAndNote(z, parsedBook, metadata, collectionID, failAt) ==
    LET fields == [title |-> IF Len(metadata.title) > 0 THEN metadata.title
                             ELSE parsedBook.title,
                   authors |-> IF Len(metadata.authors) > 0 THEN metadata.authors
                               ELSE parsedBook.authors,
                   collectionID |-> collectionID]
        itemID == z.nextID
        c1 == <<Call("createBook", itemID)>>
        z1 == createBook(z, fields)
        c2 == c1 \o <<Call("createNote", itemID)>>
    IN IF failAt = "createBook" THEN Threw(z, c1)
       ELSE IF failAt = "createNote" THEN Threw(z1, c2)
       ELSE [z |-> createNote(z1, itemID, buildNoteHTML(parsedBook)),
             result |-> "created", calls |-> c2]

(***************************************************************************)
(* Metadata lookup, as far as the wizard and the importer use its result   *)
(***************************************************************************)
\* the value null of a field of a metadata record
null == "null"

kindleFallback(parsedBook) ==
    [title |-> parsedBook.title, authors |-> parsedBook.authors,
     publisher |-> null, year |-> null, isbn |-> null, language |-> null,
     numPages |-> null, source |-> "kindle", confidence |-> <<0, 1>>]

\* what lookupBook returns for a book: a record found on line, or the fallback
lookupBook(parsedBook, found) ==
    IF found
    THEN [title |-> <<Letter.c>>, authors |-> << <<Letter.c>> >>, source |-> "google",
          confidence |-> <<1, 1>>]
    ELSE kindleFallback(parsedBook)

(***************************************************************************)
(* The matcher's similarity functions.  A score is an exact rational       *)
(* <<numerator, denominator>> with a positive denominator.                 *)
(***************************************************************************)
ratGE(x, y) == x[1] * y[2] >= y[1] * x[2]
ratGT(x, y) == x[1] * y[2] > y[1] * x[2]
ratEQ(x, y) == x[1] * y[2] = y[1] * x[2]

CONFIDENT_TITLE_THRESHOLD == <<85, 100>>

\* the candidate floor raised to the confident floor
CANDIDATE_TITLE_THRESHOLD_raised == <<85, 100>>

CANDIDATE_TITLE_THRESHOLD == <<60, 100>>

AUTHOR_BOOST_THRESHOLD == <<50, 100>>

\* a, an, the, of, in, on, at, to, for, and, or, with, by, from, as, is, its,
\* it, be, was, are
STOP_WORDS ==
    { <<97>>, <<97, 110>>, <<116, 104, 101>>, <<111, 102>>, <<105, 110>>,
      <<111, 110>>, <<97, 116>>, <<116, 111>>, <<102, 111, 114>>, <<97, 110, 100>>,
      <<111, 114>>, <<119, 105, 116, 104>>, <<98, 121>>, <<102, 114, 111, 109>>,
      <<97, 115>>, <<105, 115>>, <<105, 116, 115>>, <<105, 116>>, <<98, 101>>,
      <<119, 97, 115>>, <<97, 114, 101>> }

\* [a-z0-9]
isAlnum(c) == c \in 97..122 \/ c \in 48..57

\* str.split(/\s+/): the runs between maximal runs of white space, the empty
\* runs at the ends included; word is the run collected so far
RECURSIVE splitWords(_, _)
splitWords(str, word) ==
    IF Len(str) = 0 THEN <<word>>
    ELSE IF isWhitespace(str[1])
         THEN IF Len(str) > 1 /\ isWhitespace(str[2])
              THEN splitWords(Tail(str), word)
              ELSE <<word>> \o splitWords(Tail(str), <<>>)
         ELSE splitWords(Tail(str), Append(word, str[1]))

\* the whole word and each of its character bigrams
bigramsOf(word) ==
    {word} \cup { SubSeq(word, i, i + 1) : i \in 1..(Len(word) - 1) }

tokenize(str) ==
    LET lower == toLowerCase(str)
        noApostrophes == SelectSeq(lower, LAMBDA c : c # chApostrophe)
        spaced == [k \in 1..Len(noApostrophes) |->
                      IF isAlnum(noApostrophes[k]) \/ isWhitespace(noApostrophes[k])
                      THEN noApostrophes[k] ELSE chSpace]
        words == SelectSeq(splitWords(spaced, <<>>),
                           LAMBDA w : Len(w) > 1 /\ w \notin STOP_WORDS)
    IN IF Len(str) = 0 THEN {}
       ELSE UNION { bigramsOf(words[k]) : k \in 1..Len(words) }

\* diceCoefficient that gives 0 as soon as one set is empty
diceCoefficient_emptyIsZero(setA, setB) ==
    IF Cardinality(setA) = 0 \/ Cardinality(setB) = 0 THEN <<0, 1>>
    ELSE <<2 * Cardinality(setA \cap setB), Cardinality(setA) + Cardinality(setB)>>

diceCoefficient(setA, setB) ==
    IF Cardinality(setA) = 0 /\ Cardinality(setB) = 0 THEN <<1, 1>>
    ELSE IF Cardinality(setA) = 0 \/ Cardinality(setB) = 0 THEN <<0, 1>>
    ELSE <<2 * Cardinality(setA \cap setB), Cardinality(setA) + Cardinality(setB)>>

\* the similarity without its containment term
titleSimilarity_diceOnly(tokensA, tokensB) ==
    IF Cardinality(tokensA) = 0 /\ Cardinality(tokensB) = 0 THEN <<1, 1>>
    ELSE IF Cardinality(tokensA) = 0 \/ Cardinality(tokensB) = 0 THEN <<0, 1>>
    ELSE <<2 * Cardinality(tokensA \cap tokensB),
           Cardinality(tokensA) + Cardinality(tokensB)>>

\* Math.max(dice, containment), containment = (contained / smaller.size) * 0.9
titleSimilarity(tokensA, tokensB) ==
    LET dice == diceCoefficient(tokensA, tokensB)
        smaller == IF Cardinality(tokensA) <= Cardinality(tokensB) THEN tokensA ELSE tokensB
        larger == IF Cardinality(tokensA) <= Cardinality(tokensB) THEN tokensB ELSE tokensA
        contained == Cardinality(smaller \cap larger)
        containment == IF Cardinality(smaller) = 0 THEN <<0, 1>>
                       ELSE <<9 * contained, 10 * Cardinality(smaller)>>
    IN IF ratGE(dice, containment) THEN dice ELSE containment

getZoteroTitle(item) == item.title

\* the author strings taken from the last names alone
getZoteroAuthors_lastNameOnly(item) ==
    [k \in 1..Len(item.creators) |-> item.creators[k].lastName]

\* [c.firstName, c.lastName].filter(Boolean).join(" ") for each creator
getZoteroAuthors(item) ==
    [k \in 1..Len(item.creators) |->
        Join(SelectSeq(<<item.creators[k].firstName, item.creators[k].lastName>>,
                       LAMBDA part : Len(part) > 0),
             <<chSpace>>)]

(***************************************************************************)
(* Inputs of the import wizard: the parsed books and how the matcher       *)
(* classified them.  Books of one parse have distinct keys.                *)
(***************************************************************************)
ImportTitles == { <<Letter.t>>, <<Letter.c>>, <<Letter.t, chRBrace>> }
ImportTexts == { <<Letter.a, Letter.b>>, <<Letter.b, Letter.A>>, <<Letter.a, Letter.a>> }

Highlight(text) ==
    [type |-> "highlight", text |-> text, page |-> NoNum, locationStart |-> 1]

ImportBook(title, text) ==
    [title |-> title, authors |-> <<>>, highlights |-> <<Highlight(text)>>,
     notes |-> <<>>]

\* the texts a highlight has when it is first imported
FirstTexts == { <<Letter.a, Letter.b>>, <<Letter.a, Letter.a>> }

ImportBooks == { ImportBook(t, x) : t \in ImportTitles, x \in ImportTexts }

SeqsUpTo(S, n) == UNION { [1..k -> S] : k \in 0..n }

DistinctSeqs(S, n) ==
    { q \in SeqsUpTo(S, n) : \A i, j \in 1..Len(q) : i # j => q[i] # q[j] }

\* what the matcher decided for one book
Roles ==
    [kind : {"matched"}, item : Items, candidates : {<<>>}]
    \cup [kind : {"ambiguous"}, item : {0},
          candidates : {[k \in 1..NumItems |-> [zoteroItem |-> k]]}]
    \cup [kind : {"unmatched"}, item : {0}, candidates : {<<>>}]

RECURSIVE Bucket(_, _, _)
Bucket(books, roles, kind) ==
    IF Len(books) = 0 THEN <<>>
    ELSE LET rest == Bucket(Tail(books), Tail(roles), kind)
         IN IF roles[1].kind = kind
            THEN <<[parsedBook |-> books[1], zoteroItem |-> roles[1].item,
                    candidates |-> roles[1].candidates]>> \o rest
            ELSE rest

MatchResultOf(books, roles) ==
    [matched |-> Bucket(books, roles, "matched"),
     ambiguous |-> Bucket(books, roles, "ambiguous"),
     unmatched |-> Bucket(books, roles, "unmatched")]

EmptyReport ==
    [notesAdded |-> 0, notesUpdated |-> 0, booksCreated |-> 0, skipped |-> 0,
     failed |-> <<>>]

NoPrev == [returned |-> FALSE, clean |-> FALSE, pairs |-> <<>>, mutated |-> <<>>]

\* the matcher's variables while the wizard runs
MatchIdle ==
    /\ parsedBooks = <<>>
    /\ zoteroItems = <<>>
    /\ mi = 0
    /\ matched = <<>>
    /\ ambiguous = <<>>
    /\ unmatched = <<>>

Init ==
    /\ \E books \in DistinctSeqs(ImportBooks, MaxBooks) :
         /\ Len(books) > 0
         /\ \A i, j \in 1..Len(books) : i # j => books[i].title # books[j].title
         /\ \A i \in 1..Len(books) : books[i].highlights[1].text \in FirstTexts
         /\ \E roles \in [1..Len(books) -> Roles] :
              matchResult = MatchResultOf(books, roles)
    /\ \E legacy \in SUBSET Items :
         zotero = [notes |-> SelectSeq([i \in 1..NumItems |->
                                          [id |-> NumItems + i, parent |-> i,
                                           html |-> LegacyHTML]],
                                       LAMBDA n : n.parent \in legacy),
                   members |-> {}, books |-> <<>>, collections |-> {},
                   nextID |-> 2 * NumItems + 1]
    /\ lookupResults = <<>>
    /\ confirmed = <<>>
    /\ confirmedBooks = <<>>
    /\ cancelled = FALSE
    /\ pc = "idle"
    /\ importCollectionID = ""
    /\ done = 0
    /\ totalWork = 0
    /\ report = EmptyReport
    /\ calls = <<>>
    /\ progress = <<>>
    /\ outcomes = <<>>
    /\ run = 1
    /\ prev = NoPrev
    /\ MatchIdle
    /\ SimIdle
    /\ ParseIdle
    /\ LookupIdle
    /\ OtherIdle

(***************************************************************************)
(* KindleDialog.startImport and onCancel                                   *)
(***************************************************************************)
\* the user's choice for an ambiguous book: a candidate, or "add as new"
Decisions(entry) ==
    [type : {"match"}, index : 1..Len(entry.candidates)]
    \cup [type : {"new"}, index : {0}]

\* The review screen has filled _confirmed; startImport clears the flag.
StartImport ==
    /\ pc = "idle"
    /\ LET amb == matchResult.ambiguous
       IN \E decisions \in [1..Len(amb) ->
                               UNION { Decisions(amb[k]) : k \in 1..Len(amb) }] :
            /\ \A k \in 1..Len(amb) : decisions[k] \in Decisions(amb[k])
            /\ confirmed' = decisions
    /\ cancelled' = FALSE
    /\ pc' = "phase1"
    /\ lookupResults' = <<>>
    /\ confirmedBooks' = <<>>
    /\ calls' = <<>>
    /\ progress' = <<>>
    /\ outcomes' = <<>>
    /\ report' = EmptyReport
    /\ done' = 0
    /\ totalWork' = 0
    /\ UNCHANGED <<matchResult, importCollectionID, zotero, run, prev, matchVars, restVars>>

\* Phase 1: lookupAllUnmatched over the unmatched books, then the flag is read
Phase1Lookup ==
    /\ pc = "phase1"
    /\ \E found \in [1..Len(matchResult.unmatched) -> BOOLEAN] :
         lookupResults' =
            [k \in 1..Len(matchResult.unmatched) |->
                [parsedBook |-> matchResult.unmatched[k].parsedBook,
                 metadata |-> lookupBook(matchResult.unmatched[k].parsedBook, found[k])]]
    /\ pc' = IF cancelled THEN "closed" ELSE "phase2"
    /\ UNCHANGED <<matchResult, confirmed, confirmedBooks, cancelled,
                   importCollectionID, done, totalWork, report, zotero, calls, progress,
                   outcomes, run, prev, matchVars, restVars>>

RECURSIVE ConfirmedOf(_, _)
ConfirmedOf(entries, decisions) ==
    IF Len(entries) = 0 THEN <<>>
    ELSE LET rest == ConfirmedOf(Tail(entries), Tail(decisions))
         IN IF decisions[1].type = "match"
            THEN <<[parsedBook |-> entries[1].parsedBook,
                    zoteroItem |-> entries[1].candidates[decisions[1].index].zoteroItem]>>
                 \o rest
            ELSE rest

RECURSIVE AddedAsNew(_, _, _)
AddedAsNew(entries, decisions, metas) ==
    IF Len(entries) = 0 THEN <<>>
    ELSE LET rest == AddedAsNew(Tail(entries), Tail(decisions), Tail(metas))
         IN IF decisions[1].type = "new"
            THEN <<[parsedBook |-> entries[1].parsedBook, metadata |-> metas[1]]>> \o rest
            ELSE rest

\* Phase 2: confirmedBooks from the review decisions, then the flag is read
Phase2Confirm ==
    /\ pc = "phase2"
    /\ LET amb == matchResult.ambiguous
       IN \E found \in [1..Len(amb) -> BOOLEAN] :
            /\ \A k \in 1..Len(amb) : confirmed[k].type = "match" => ~found[k]
            /\ confirmedBooks' = ConfirmedOf(amb, confirmed)
            /\ lookupResults' =
                  lookupResults
                  \o AddedAsNew(amb, confirmed,
                                [k \in 1..Len(amb) |-> lookupBook(amb[k].parsedBook, found[k])])
    /\ pc' = IF cancelled THEN "closed" ELSE "phase3"
    /\ UNCHANGED <<matchResult, confirmed, cancelled, importCollectionID, done, totalWork, report,
                   zotero, calls, progress, outcomes, run, prev, matchVars, restVars>>

\* The Cancel button, pressed while startImport waits for a collaborator:
\* the lookups of phase 1, a lookup of phase 2, or anything importAll awaits.
OnCancel ==
    /\ \/ pc = "phase1" /\ Len(matchResult.unmatched) > 0
       \/ pc = "phase2" /\ \E k \in 1..Len(confirmed) : confirmed[k].type = "new"
       \/ pc = "importing"
    /\ ~cancelled
    /\ cancelled' = TRUE
    /\ UNCHANGED <<matchResult, lookupResults, confirmed, confirmedBooks, pc, importCollectionID,
                   done, totalWork, report, zotero, calls, progress, outcomes, run, prev,
                   matchVars, restVars>>

(***************************************************************************)
(* importAll                                                               *)
(***************************************************************************)
NoNote == [id |-> 0, parent |-> 0, html |-> LegacyHTML]

\* [...matched, ...confirmed]
Pairs ==
    LET all == matchResult.matched \o confirmedBooks
    IN [k \in 1..Len(all) |->
           [parsedBook |-> all[k].parsedBook, zoteroItem |-> all[k].zoteroItem]]

Accounted(r) == r.notesAdded + r.notesUpdated + r.skipped + Len(r.failed)

Logged(cs, flag) ==
    [k \in 1..Len(cs) |-> [op |-> cs[k].op, target |-> cs[k].target, afterCancel |-> flag]]

\* the second loop counts the book and not its note
Counted_bookWithoutNote(r, result, title, reason) ==
    IF result = "threw"
    THEN [r EXCEPT !.failed = Append(r.failed, [title |-> title, reason |-> reason])]
    ELSE IF result = "skipped" THEN [r EXCEPT !.skipped = r.skipped + 1]
    ELSE IF result = "updated" THEN [r EXCEPT !.notesUpdated = r.notesUpdated + 1]
    ELSE IF result = "created" THEN [r EXCEPT !.booksCreated = r.booksCreated + 1]
    ELSE [r EXCEPT !.notesAdded = r.notesAdded + 1]

\* the catch block forgets the failure
Counted_dropsFailure(r, result, title, reason) ==
    IF result = "threw" THEN r
    ELSE IF result = "skipped" THEN [r EXCEPT !.skipped = r.skipped + 1]
    ELSE IF result = "updated" THEN [r EXCEPT !.notesUpdated = r.notesUpdated + 1]
    ELSE IF result = "created"
    THEN [r EXCEPT !.booksCreated = r.booksCreated + 1, !.notesAdded = r.notesAdded + 1]
    ELSE [r EXCEPT !.notesAdded = r.notesAdded + 1]

\* the report after one document: the try block's counters, or the catch block
Counted(r, result, title, reason) ==
    IF result = "threw"
    THEN [r EXCEPT !.failed = Append(r.failed, [title |-> title, reason |-> reason])]
    ELSE IF result = "skipped" THEN [r EXCEPT !.skipped = r.skipped + 1]
    ELSE IF result = "updated" THEN [r EXCEPT !.notesUpdated = r.notesUpdated + 1]
    ELSE IF result = "created"
    THEN [r EXCEPT !.booksCreated = r.booksCreated + 1, !.notesAdded = r.notesAdded + 1]
    ELSE [r EXCEPT !.notesAdded = r.notesAdded + 1]

\* const totalWork = matched.length + confirmed.length + lookupResults.length
totalWorkOf(m, c, l) == Len(m) + Len(c) + Len(l)

\* onProgress called before done++
onProgress_beforeIncrement(log, d, total, title, rep) ==
    Append(log, [done |-> d, total |-> total, title |-> title,
                 accounted |-> Accounted(rep)])

\* done++; if (onProgress) onProgress(done, totalWork, parsedBook.title)
\* rep is the report at the time of the call
onProgress(log, d, total, title, rep) ==
    Append(log, [done |-> d + 1, total |-> total, title |-> title,
                 accounted |-> Accounted(rep)])

\* importAll up to the first document: the report, the collection, totalWork
ImportAllBeginOf(oks) ==
    /\ pc = "phase3"
    /\ report' = EmptyReport
    /\ \E ok \in oks :
         IF ok
         THEN LET c == getOrCreateCollection(zotero, IMPORT_COLLECTION_NAME)
              IN /\ zotero' = c.z
                 /\ importCollectionID' = c.id
                 /\ pc' = "importing"
         ELSE /\ pc' = "rejected"
              /\ UNCHANGED <<zotero, importCollectionID>>
    /\ totalWork' = totalWorkOf(matchResult.matched, confirmedBooks, lookupResults)
    /\ done' = 0
    /\ calls' = calls \o Logged(<<Call("getOrCreateCollection", 0)>>, cancelled)
    /\ UNCHANGED <<matchResult, lookupResults, confirmed, confirmedBooks, cancelled, progress,
                   outcomes, run, prev, matchVars, restVars>>

\* one turn of the first loop: attachNoteToExisting, the counters or the
\* catch, done++, onProgress
AttachStepOf(fails) ==
    /\ pc = "importing"
    /\ done < Len(Pairs)
    /\ \E failAt \in fails :
         LET pair == Pairs[done + 1]
             before == SelectSeq(zotero.notes, LAMBDA n : n.parent = pair.zoteroItem)
             r == attachNoteToExisting(zotero, pair.parsedBook, pair.zoteroItem,
                                       importCollectionID, failAt)
             rep == Counted(report, r.result, pair.parsedBook.title, failAt)
         IN /\ zotero' = r.z
            /\ report' = rep
            /\ calls' = calls \o Logged(r.calls, cancelled)
            /\ outcomes' = Append(outcomes,
                  [title |-> pair.parsedBook.title, item |-> pair.zoteroItem,
                   result |-> r.result, existed |-> Len(before) > 0,
                   existing |-> IF Len(before) > 0 THEN before[1] ELSE NoNote,
                   current |-> computeFingerprint(pair.parsedBook),
                   calls |-> r.calls])
            /\ progress' = onProgress(progress, done, totalWork,
                                      pair.parsedBook.title, rep)
    /\ done' = done + 1
    /\ UNCHANGED <<matchResult, lookupResults, confirmed, confirmedBooks, cancelled, pc,
                   importCollectionID, totalWork, run, prev, matchVars, restVars>>

\* one turn of the second loop: createBookAndNote, the counters or the catch,
\* done++, onProgress
CreateStepOf(fails) ==
    /\ pc = "importing"
    /\ done >= Len(Pairs)
    /\ done < Len(Pairs) + Len(lookupResults)
    /\ \E failAt \in fails :
         LET entry == lookupResults[done - Len(Pairs) + 1]
             r == createBookAndNote(zotero, entry.parsedBook, entry.metadata,
                                    importCollectionID, failAt)
             rep == Counted(report, r.result, entry.parsedBook.title, failAt)
         IN /\ zotero' = r.z
            /\ report' = rep
            /\ calls' = calls \o Logged(r.calls, cancelled)
            /\ outcomes' = Append(outcomes,
                  [title |-> entry.parsedBook.title, item |-> zotero.nextID,
                   result |-> r.result, existed |-> FALSE, existing |-> NoNote,
                   current |-> computeFingerprint(entry.parsedBook),
                   calls |-> r.calls])
            /\ progress' = onProgress(progress, done, totalWork,
                                      entry.parsedBook.title, rep)
    /\ done' = done + 1
    /\ UNCHANGED <<matchResult, lookupResults, confirmed, confirmedBooks, cancelled, pc,
                   importCollectionID, totalWork, run, prev, matchVars, restVars>>

\* importAll returns the report; startImport reads the flag, then _showDone
ImportReturn ==
    /\ pc = "importing"
    /\ done = Len(Pairs) + Len(lookupResults)
    /\ pc' = IF cancelled THEN "dismissed" ELSE "done"
    /\ UNCHANGED <<matchResult, lookupResults, confirmed, confirmedBooks, cancelled,
                   importCollectionID, done, totalWork, report, zotero, calls,
                   progress, outcomes, run, prev, matchVars, restVars>>

(***************************************************************************)
(* A later import of the same clippings: the wizard is opened again on the *)
(* same books and the same match result, with at most one highlight's text *)
(* changed in between.                                                     *)
(***************************************************************************)
WithText(entries, title, text) ==
    [k \in 1..Len(entries) |->
        IF entries[k].parsedBook.title = title
        THEN [entries[k] EXCEPT !.parsedBook.highlights[1].text = text]
        ELSE entries[k]]

AllEntries == matchResult.matched \o matchResult.ambiguous \o matchResult.unmatched

Reopen ==
    /\ pc \in {"done", "dismissed", "closed", "rejected"}
    /\ run < MaxRuns
    /\ run' = run + 1
    /\ pc' = "idle"
    /\ \E k \in 0..Len(AllEntries), text \in ImportTexts :
         IF k = 0
         THEN /\ text = CHOOSE x \in ImportTexts : TRUE
              /\ matchResult' = matchResult
              /\ prev' = [returned |-> pc \in {"done", "dismissed"},
                          clean |-> Len(report.failed) = 0,
                          pairs |-> Pairs, mutated |-> <<>>]
         ELSE /\ text # AllEntries[k].parsedBook.highlights[1].text
              /\ matchResult' =
                    [matched |-> WithText(matchResult.matched,
                                          AllEntries[k].parsedBook.title, text),
                     ambiguous |-> WithText(matchResult.ambiguous,
                                            AllEntries[k].parsedBook.title, text),
                     unmatched |-> WithText(matchResult.unmatched,
                                            AllEntries[k].parsedBook.title, text)]
              /\ prev' = [returned |-> pc \in {"done", "dismissed"},
                          clean |-> Len(report.failed) = 0,
                          pairs |-> Pairs,
                          mutated |-> AllEntries[k].parsedBook.title]
    /\ UNCHANGED <<lookupResults, confirmed, confirmedBooks, cancelled,
                   importCollectionID, done,
                   totalWork, report, zotero, calls, progress, outcomes, matchVars, restVars>>

\* any collaborator call may throw
ImportAllBegin == ImportAllBeginOf(BOOLEAN)
AttachStep == AttachStepOf(FailPoints \ {"createBook"})
CreateStep == CreateStepOf({"none", "createBook", "createNote"})

\* no collaborator call throws
ImportAllBeginOk == ImportAllBeginOf({TRUE})
AttachStepOk == AttachStepOf({"none"})
CreateStepOk == CreateStepOf({"none"})

Next ==
    \/ StartImport
    \/ Phase1Lookup
    \/ Phase2Confirm
    \/ OnCancel
    \/ ImportAllBegin
    \/ AttachStep
    \/ CreateStep
    \/ ImportReturn

\* one import, in which collaborator calls may throw and the user may cancel
Spec == Init /\ [][Next]_vars

NextRerun ==
    \/ StartImport
    \/ Phase1Lookup
    \/ Phase2Confirm
    \/ ImportAllBeginOk
    \/ AttachStepOk
    \/ CreateStepOk
    \/ ImportReturn
    \/ Reopen

\* up to MaxRuns imports in a row in which no collaborator call throws and
\* the user does not cancel
SpecRerun == Init /\ [][NextRerun]_vars

(***************************************************************************)
(* Imports in a row in which collaborator calls may throw: the books of    *)
(* one clippings file with two titles, imported MaxRuns times.             *)
(***************************************************************************)
GuardBooks ==
    { ImportBook(<<Letter.t>>, <<Letter.a, Letter.b>>),
      ImportBook(<<Letter.t, chRBrace>>, <<Letter.a, Letter.b>>) }

\* the matcher found every book's item, or no candidate for it
GuardRoles == { r \in Roles : r.kind # "ambiguous" }

InitGuard ==
    /\ \E books \in DistinctSeqs(GuardBooks, MaxBooks) :
         /\ Len(books) > 0
         /\ \E roles \in [1..Len(books) -> GuardRoles] :
              matchResult = MatchResultOf(books, roles)
    /\ \E legacy \in SUBSET Items :
         zotero = [notes |-> SelectSeq([i \in 1..NumItems |->
                                          [id |-> NumItems + i, parent |-> i,
                                           html |-> LegacyHTML]],
                                       LAMBDA n : n.parent \in legacy),
                   members |-> {}, books |-> <<>>, collections |-> {},
                   nextID |-> 2 * NumItems + 1]
    /\ lookupResults = <<>>
    /\ confirmed = <<>>
    /\ confirmedBooks = <<>>
    /\ cancelled = FALSE
    /\ pc = "idle"
    /\ importCollectionID = ""
    /\ done = 0
    /\ totalWork = 0
    /\ report = EmptyReport
    /\ calls = <<>>
    /\ progress = <<>>
    /\ outcomes = <<>>
    /\ run = 1
    /\ prev = NoPrev
    /\ MatchIdle
    /\ SimIdle
    /\ ParseIdle
    /\ LookupIdle
    /\ OtherIdle

NextGuard ==
    \/ StartImport
    \/ Phase1Lookup
    \/ Phase2Confirm
    \/ ImportAllBegin
    \/ AttachStep
    \/ CreateStep
    \/ ImportReturn
    \/ Reopen

\* up to MaxRuns imports in a row in which collaborator calls may throw
SpecGuard == InitGuard /\ [][NextGuard]_vars

(***************************************************************************)
(* matchBooksToZotero.  A catalog item is referred to by its position in   *)
(* zoteroItems.                                                            *)
(***************************************************************************)
\* zoteroItems.map(item => ({ item, titleTokens, authorTokens }))
zoteroFingerprints(items) ==
    [k \in 1..Len(items) |->
        [item |-> k,
         titleTokens |-> tokenize(getZoteroTitle(items[k])),
         authorTokens |-> tokenize(Join(getZoteroAuthors(items[k]), <<chSpace>>))]]

\* the comparator of the sort without its tie-break on the author score
compareCandidates_titleOnly(a, b) ==
    IF ratGT(b.titleScore, a.titleScore) THEN 1
    ELSE IF ratGT(a.titleScore, b.titleScore) THEN 0 - 1
    ELSE 0

\* the sign of: titleDiff !== 0 ? titleDiff : b.authorScore - a.authorScore
compareCandidates(a, b) ==
    IF ~ratEQ(b.titleScore, a.titleScore)
    THEN IF ratGT(b.titleScore, a.titleScore) THEN 1 ELSE 0 - 1
    ELSE IF ratGT(b.authorScore, a.authorScore) THEN 1
    ELSE IF ratGT(a.authorScore, b.authorScore) THEN 0 - 1
    ELSE 0

\* Array.prototype.sort with that comparator: stable
RECURSIVE insertCandidate(_, _)
insertCandidate(sorted, s) ==
    IF Len(sorted) = 0 THEN <<s>>
    ELSE IF compareCandidates(sorted[Len(sorted)], s) > 0
         THEN insertCandidate(SubSeq(sorted, 1, Len(sorted) - 1), s)
              \o <<sorted[Len(sorted)]>>
         ELSE sorted \o <<s>>

RECURSIVE sortCandidates(_)
sortCandidates(cands) ==
    IF Len(cands) = 0 THEN <<>>
    ELSE insertCandidate(sortCandidates(SubSeq(cands, 1, Len(cands) - 1)),
                         cands[Len(cands)])

\* zoteroFingerprints.map(...).filter(...).sort(...) for one parsed book
scoredCandidates(parsedBook, items) ==
    LET kindleTitleTokens == tokenize(parsedBook.title)
        kindleAuthorTokens == tokenize(Join(parsedBook.authors, <<chSpace>>))
        fps == zoteroFingerprints(items)
        all == [k \in 1..Len(fps) |->
                   [zoteroItem |-> fps[k].item,
                    titleScore |-> titleSimilarity(kindleTitleTokens, fps[k].titleTokens),
                    authorScore |-> IF Cardinality(kindleAuthorTokens) = 0 THEN <<0, 1>>
                                    ELSE diceCoefficient(kindleAuthorTokens,
                                                         fps[k].authorTokens)]]
    IN sortCandidates(SelectSeq(all,
           LAMBDA c : ratGE(c.titleScore, CANDIDATE_TITLE_THRESHOLD)))

\* authorOk without the exemption of a book that has no author tokens
authorOk_noExemption(kindleAuthorTokens, best) ==
    ratGE(best.authorScore, AUTHOR_BOOST_THRESHOLD)

authorOk(kindleAuthorTokens, best) ==
    Cardinality(kindleAuthorTokens) = 0 \/ ratGE(best.authorScore, AUTHOR_BOOST_THRESHOLD)

\* the end index of scored.slice(0, 5)
SliceEnd == 5

\* the inputs of the matcher
MatchTitles ==
    [abc |-> <<Letter.a, Letter.b, Letter.c>>,
     abcb |-> <<Letter.a, Letter.b, Letter.c, Letter.b>>,
     AbcCa |-> <<Letter.A, Letter.b, Letter.c, chColon, Letter.c, Letter.a>>]

MatchAuthors ==
    [ab |-> <<Letter.a, Letter.b>>,
     An |-> <<Letter.A, Letter.n>>,
     a |-> <<Letter.a>>,
     aApostropheBc |-> <<Letter.a, chApostrophe, Letter.b, Letter.c>>,
     abcb |-> <<Letter.a, Letter.b, Letter.c, Letter.b>>]

MatchBook(title, authors) ==
    [title |-> title, authors |-> authors, highlights |-> <<>>, notes |-> <<>>]

MatchBooks ==
    { MatchBook(MatchTitles.abc, <<>>),
      MatchBook(MatchTitles.abc, <<MatchAuthors.ab>>),
      MatchBook(MatchTitles.abc, <<MatchAuthors.An>>),
      MatchBook(MatchTitles.abcb, <<MatchAuthors.ab>>) }

Creator(firstName, lastName) == [firstName |-> firstName, lastName |-> lastName]

CatalogItems ==
    { [title |-> MatchTitles.abc, creators |-> <<>>],
      [title |-> MatchTitles.abc, creators |-> <<Creator(<<>>, MatchAuthors.abcb)>>],
      [title |-> MatchTitles.abcb,
       creators |-> <<Creator(MatchAuthors.a, MatchAuthors.aApostropheBc)>>],
      [title |-> MatchTitles.AbcCa, creators |-> <<>>] }

\* the wizard before any import, while the matcher runs
InitMatch ==
    /\ parsedBooks \in DistinctSeqs(MatchBooks, MaxMatchBooks)
    /\ zoteroItems \in SeqsUpTo(CatalogItems, MaxCatalog)
    /\ Len(parsedBooks) * Len(zoteroItems) <= MaxComparisons
    /\ mi = 0
    /\ matched = <<>>
    /\ ambiguous = <<>>
    /\ unmatched = <<>>
    /\ matchResult = MatchResultOf(<<>>, <<>>)
    /\ zotero = [notes |-> <<>>, members |-> {}, books |-> <<>>, collections |-> {},
                 nextID |-> 1]
    /\ lookupResults = <<>>
    /\ confirmed = <<>>
    /\ confirmedBooks = <<>>
    /\ cancelled = FALSE
    /\ pc = "matching"
    /\ importCollectionID = ""
    /\ done = 0
    /\ totalWork = 0
    /\ report = EmptyReport
    /\ calls = <<>>
    /\ progress = <<>>
    /\ outcomes = <<>>
    /\ run = 1
    /\ prev = NoPrev
    /\ SimIdle
    /\ ParseIdle
    /\ LookupIdle
    /\ OtherIdle

\* the loop body once a book has candidates: the confident match, or the
\* candidates handed to the review
PushMatchedOrAmbiguous(parsedBook, kindleAuthorTokens, scored) ==
    LET best == scored[1]
    IN IF /\ ratGE(best.titleScore, CONFIDENT_TITLE_THRESHOLD)
          /\ authorOk(kindleAuthorTokens, best)
       THEN /\ matched' = Append(matched,
                  [parsedBook |-> parsedBook, zoteroItem |-> best.zoteroItem,
                   titleScore |-> best.titleScore, authorScore |-> best.authorScore])
            /\ UNCHANGED <<ambiguous, unmatched>>
       ELSE IF Len(scored) = 1
       THEN /\ ambiguous' = Append(ambiguous,
                  [parsedBook |-> parsedBook, candidates |-> scored])
            /\ UNCHANGED <<matched, unmatched>>
       ELSE /\ ambiguous' = Append(ambiguous,
                  [parsedBook |-> parsedBook,
                   candidates |-> SubSeq(scored, 1, Min(SliceEnd, Len(scored)))])
            /\ UNCHANGED <<matched, unmatched>>

\* the loop body that goes on to the next book without pushing one that has
\* no candidates
MatchStep_dropsNew ==
    /\ pc = "matching"
    /\ mi < Len(parsedBooks)
    /\ LET parsedBook == parsedBooks[mi + 1]
           kindleAuthorTokens == tokenize(Join(parsedBook.authors, <<chSpace>>))
           scored == scoredCandidates(parsedBook, zoteroItems)
       IN IF Len(scored) = 0
          THEN UNCHANGED <<matched, ambiguous, unmatched>>
          ELSE PushMatchedOrAmbiguous(parsedBook, kindleAuthorTokens, scored)
    /\ mi' = mi + 1
    /\ UNCHANGED <<parsedBooks, zoteroItems, importVars, restVars>>

\* one turn of the loop over parsedBooks
MatchStep ==
    /\ pc = "matching"
    /\ mi < Len(parsedBooks)
    /\ LET parsedBook == parsedBooks[mi + 1]
           kindleAuthorTokens == tokenize(Join(parsedBook.authors, <<chSpace>>))
           scored == scoredCandidates(parsedBook, zoteroItems)
       IN IF Len(scored) = 0
          THEN /\ unmatched' = Append(unmatched, [parsedBook |-> parsedBook])
               /\ UNCHANGED <<matched, ambiguous>>
          ELSE PushMatchedOrAmbiguous(parsedBook, kindleAuthorTokens, scored)
    /\ mi' = mi + 1
    /\ UNCHANGED <<parsedBooks, zoteroItems, importVars, restVars>>

\* return { matched, ambiguous, unmatched }, kept by the wizard as _matchResult
MatchReturn ==
    /\ pc = "matching"
    /\ mi = Len(parsedBooks)
    /\ matchResult' = [matched |-> matched, ambiguous |-> ambiguous,
                       unmatched |-> unmatched]
    /\ pc' = "review"
    /\ UNCHANGED <<lookupResults, confirmed, confirmedBooks, cancelled, importCollectionID,
                   done, totalWork, report, zotero, calls, progress, outcomes, run, prev,
                   matchVars, restVars>>

NextMatch ==
    \/ MatchStep
    \/ MatchReturn

\* one run of the matcher over a parsed book map and a catalog snapshot
SpecMatch == InitMatch /\ [][NextMatch]_vars

(***************************************************************************)
(* The matcher over one document and a catalog of one item that carries    *)
(* the document's title and its authors, each author written once as the   *)
(* parser gives it and once as the creator the catalog stores.             *)
(***************************************************************************)
ExactTitles ==
    { <<>>,
      <<Letter.a>>,
      MatchTitles.abc,
      MatchTitles.abcb,
      MatchTitles.AbcCa,
      <<Letter.t, chRBrace>> }

Person(name, creator) == [name |-> name, creator |-> creator]

ExactPeople ==
    [ab |-> Person(MatchAuthors.ab, Creator(<<>>, MatchAuthors.ab)),
     abcbAn |-> Person(MatchAuthors.abcb \o <<chSpace>> \o MatchAuthors.An,
                       Creator(MatchAuthors.abcb, MatchAuthors.An)),
     aABc |-> Person(MatchAuthors.a \o <<chSpace>> \o MatchAuthors.aApostropheBc,
                     Creator(MatchAuthors.a, MatchAuthors.aApostropheBc)),
     An |-> Person(MatchAuthors.An, Creator(MatchAuthors.An, <<>>))]

ExactAuthorLists ==
    { <<>>,
      <<ExactPeople.ab>>,
      <<ExactPeople.abcbAn>>,
      <<ExactPeople.aABc>>,
      <<ExactPeople.An>>,
      <<ExactPeople.ab, ExactPeople.abcbAn>>,
      <<ExactPeople.abcbAn, ExactPeople.ab>> }

InitExact ==
    /\ \E title \in ExactTitles, people \in ExactAuthorLists :
         /\ parsedBooks =
                <<MatchBook(title, [k \in 1..Len(people) |-> people[k].name])>>
         /\ zoteroItems =
                <<[title |-> title,
                   creators |-> [k \in 1..Len(people) |-> people[k].creator]]>>
    /\ mi = 0
    /\ matched = <<>>
    /\ ambiguous = <<>>
    /\ unmatched = <<>>
    /\ matchResult = MatchResultOf(<<>>, <<>>)
    /\ zotero = [notes |-> <<>>, members |-> {}, books |-> <<>>, collections |-> {},
                 nextID |-> 1]
    /\ lookupResults = <<>>
    /\ confirmed = <<>>
    /\ confirmedBooks = <<>>
    /\ cancelled = FALSE
    /\ pc = "matching"
    /\ importCollectionID = ""
    /\ done = 0
    /\ totalWork = 0
    /\ report = EmptyReport
    /\ calls = <<>>
    /\ progress = <<>>
    /\ outcomes = <<>>
    /\ run = 1
    /\ prev = NoPrev
    /\ SimIdle
    /\ ParseIdle
    /\ LookupIdle
    /\ OtherIdle

\* the matcher run on a document and the one catalog item identical to it
SpecExact == InitExact /\ [][NextMatch]_vars

(***************************************************************************)
(* The matcher over documents whose best title score sits at the confident *)
(* threshold or beside it: a title of three words and one of four words,   *)
(* against catalog titles that share 17 or 16 of their 20 tokens.          *)
(***************************************************************************)
ThresholdTitles ==
    [\* "abcdefg hijklmn opqrst"
     short |->
        <<97, 98, 99, 100, 101, 102, 103, 32, 104, 105, 106, 107, 108, 109, 110, 32,
          111, 112, 113, 114, 115, 116>>,
     \* "abcdefg hijklmn opqruv"
     shortNear |->
        <<97, 98, 99, 100, 101, 102, 103, 32, 104, 105, 106, 107, 108, 109, 110, 32,
          111, 112, 113, 114, 117, 118>>,
     \* "abcdefg hijklmn opquvw"
     shortFar |->
        <<97, 98, 99, 100, 101, 102, 103, 32, 104, 105, 106, 107, 108, 109, 110, 32,
          111, 112, 113, 117, 118, 119>>,
     \* "abcde fghij klmno pqrst"
     long |->
        <<97, 98, 99, 100, 101, 32, 102, 103, 104, 105, 106, 32, 107, 108, 109, 110,
          111, 32, 112, 113, 114, 115, 116>>,
     \* "abcde fghij klmno pqrxy"
     longNear |->
        <<97, 98, 99, 100, 101, 32, 102, 103, 104, 105, 106, 32, 107, 108, 109, 110,
          111, 32, 112, 113, 114, 120, 121>>]

ThresholdBooks ==
    { MatchBook(ThresholdTitles.short, <<>>),
      MatchBook(ThresholdTitles.short, <<MatchAuthors.ab>>),
      MatchBook(ThresholdTitles.long, <<>>),
      MatchBook(ThresholdTitles.long, <<MatchAuthors.ab>>) }

ThresholdCatalog ==
    { [title |-> ThresholdTitles.shortNear, creators |-> <<>>],
      [title |-> ThresholdTitles.shortFar, creators |-> <<>>],
      [title |-> ThresholdTitles.longNear, creators |-> <<>>] }

MaxThresholdBooks == 2
MaxThresholdCatalog == 2

InitThreshold ==
    /\ parsedBooks \in DistinctSeqs(ThresholdBooks, MaxThresholdBooks)
    /\ zoteroItems \in SeqsUpTo(ThresholdCatalog, MaxThresholdCatalog)
    /\ mi = 0
    /\ matched = <<>>
    /\ ambiguous = <<>>
    /\ unmatched = <<>>
    /\ matchResult = MatchResultOf(<<>>, <<>>)
    /\ zotero = [notes |-> <<>>, members |-> {}, books |-> <<>>, collections |-> {},
                 nextID |-> 1]
    /\ lookupResults = <<>>
    /\ confirmed = <<>>
    /\ confirmedBooks = <<>>
    /\ cancelled = FALSE
    /\ pc = "matching"
    /\ importCollectionID = ""
    /\ done = 0
    /\ totalWork = 0
    /\ report = EmptyReport
    /\ calls = <<>>
    /\ progress = <<>>
    /\ outcomes = <<>>
    /\ run = 1
    /\ prev = NoPrev
    /\ SimIdle
    /\ ParseIdle
    /\ LookupIdle
    /\ OtherIdle

\* the matcher run on titles at the confident threshold
SpecThreshold == InitThreshold /\ [][NextMatch]_vars

(***************************************************************************)
(* The similarity functions called on two token sets.                      *)
(***************************************************************************)
\* the wizard and the matcher while a function is called on its own
WizardIdle ==
    /\ parsedBooks = <<>>
    /\ zoteroItems = <<>>
    /\ mi = 0
    /\ matched = <<>>
    /\ ambiguous = <<>>
    /\ unmatched = <<>>
    /\ matchResult = MatchResultOf(<<>>, <<>>)
    /\ zotero = [notes |-> <<>>, members |-> {}, books |-> <<>>, collections |-> {},
                 nextID |-> 1]
    /\ lookupResults = <<>>
    /\ confirmed = <<>>
    /\ confirmedBooks = <<>>
    /\ cancelled = FALSE
    /\ pc = "none"
    /\ importCollectionID = ""
    /\ done = 0
    /\ totalWork = 0
    /\ report = EmptyReport
    /\ calls = <<>>
    /\ progress = <<>>
    /\ outcomes = <<>>
    /\ run = 1
    /\ prev = NoPrev

\* the bigrams the token sets are drawn from
SimTokens ==
    { <<Letter.a, Letter.b>>, <<Letter.b, Letter.c>>, <<Letter.c, Letter.a>>,
      <<Letter.c, Letter.b>>, <<Letter.a, Letter.n>> }

InitSim ==
    /\ simA \in SUBSET SimTokens
    /\ simB \in SUBSET SimTokens
    /\ simResult = [op |-> "none"]
    /\ WizardIdle
    /\ ParseIdle
    /\ LookupIdle
    /\ OtherIdle

CallDiceCoefficient ==
    /\ simResult' = [op |-> "diceCoefficient", value |-> diceCoefficient(simA, simB)]
    /\ UNCHANGED <<simA, simB, importVars, matchVars, parseVars, lookupVars, otherVars>>

CallTitleSimilarity ==
    /\ simResult' = [op |-> "titleSimilarity", value |-> titleSimilarity(simA, simB)]
    /\ UNCHANGED <<simA, simB, importVars, matchVars, parseVars, lookupVars, otherVars>>

NextSim ==
    \/ CallDiceCoefficient
    \/ CallTitleSimilarity

\* diceCoefficient and titleSimilarity on every pair of token sets
SpecSim == InitSim /\ [][NextSim]_vars

(***************************************************************************)
(* The clippings parser: strings and patterns                              *)
(***************************************************************************)
chLF == 10
chCR == 13
chLParen == 40
chRParen == 41
chHyphen == 45
chPeriod == 46
chSemicolon == 59
chEquals == 61
chFullwidthColon == 65306
chSmallColon == 65109
chBOM == 65279

\* the literal words of the patterns, in lower case
Word ==
    [your |-> <<121, 111, 117, 114>>,
     highlight |-> <<104, 105, 103, 104, 108, 105, 103, 104, 116>>,
     note |-> <<110, 111, 116, 101>>,
     bookmark |-> <<98, 111, 111, 107, 109, 97, 114, 107>>,
     on |-> <<111, 110>>,
     page |-> <<112, 97, 103, 101>>,
     location |-> <<108, 111, 99, 97, 116, 105, 111, 110>>,
     added |-> <<97, 100, 100, 101, 100>>,
     kindle |-> <<107, 105, 110, 100, 108, 101>>,
     account |-> <<97, 99, 99, 111, 117, 110, 116>>,
     content |-> <<99, 111, 110, 116, 101, 110, 116>>,
     limit |-> <<108, 105, 109, 105, 116>>,
     you |-> <<121, 111, 117>>,
     have |-> <<104, 97, 118, 101>>,
     reached |-> <<114, 101, 97, 99, 104, 101, 100>>,
     the |-> <<116, 104, 101>>,
     clipping |-> <<99, 108, 105, 112, 112, 105, 110, 103>>]

ENTRY_SEPARATOR == [k \in 1..10 |-> chEquals]

SetMin(S) == CHOOSE x \in S : \A y \in S : x <= y

isDigit(c) == c \in 48..57

\* . of a pattern without the s flag: any character but a line terminator
isLineTerminator(c) == c = chLF \/ c = chCR \/ c = 8232 \/ c = 8233

\* A pattern piece is matched at position p of str and gives the position
\* after the match, or 0 when it does not match; a piece after a failed piece
\* fails.
\* a literal, letter case ignored
lit(str, p, word) ==
    IF /\ p # 0
       /\ p + Len(word) - 1 <= Len(str)
       /\ toLowerCase(SubSeq(str, p, p + Len(word) - 1)) = word
    THEN p + Len(word) ELSE 0

\* \s*
wsStar(str, p) ==
    IF p = 0 THEN 0
    ELSE SetMin({ q \in p..(Len(str) + 1) : q = Len(str) + 1 \/ ~isWhitespace(str[q]) })

\* \s+
wsPlus(str, p) ==
    IF p = 0 \/ p > Len(str) THEN 0
    ELSE IF ~isWhitespace(str[p]) THEN 0 ELSE wsStar(str, p)

\* \d+
digitsPlus(str, p) ==
    IF p = 0 \/ p > Len(str) THEN 0
    ELSE IF ~isDigit(str[p]) THEN 0
    ELSE SetMin({ q \in p..(Len(str) + 1) : q = Len(str) + 1 \/ ~isDigit(str[q]) })

\* words separated by \s+
RECURSIVE litWords(_, _, _)
litWords(str, p, words) ==
    IF Len(words) = 0 THEN p
    ELSE IF Len(words) = 1 THEN lit(str, p, words[1])
    ELSE litWords(str, wsPlus(str, lit(str, p, words[1])), Tail(words))

\* (?:\s+\|\s+)? : the position after the separator, or p when there is none
optSeparator(str, p) ==
    LET q == wsPlus(str, lit(str, wsPlus(str, p), <<chBar>>))
    IN IF q # 0 THEN q ELSE p

\* line.match(METADATA_REGEX), the pattern
\*   ^-\s+Your\s+(Highlight|Note|Bookmark)(?:\s+on\s+page\s+(\d+))?(?:\s+\|\s+)?
\*   (?:Location\s+(\d+)(?:-(\d+))?(?:\s+\|\s+)?)?(?:Added\s+on\s+(.+))?$   with flag i:
\* whether it matches and the captured groups, empty for a group that took no
\* part.  Every optional group is followed by a piece that cannot start where
\* the group could give characters back, so the match is found without
\* backtracking.
METADATA_REGEX(line) ==
    LET kinds == <<Word.highlight, Word.note, Word.bookmark>>
        kindStart == wsPlus(line, lit(line, wsPlus(line, lit(line, 1, <<chHyphen>>)),
                                      Word.your))
        kindAt == { k \in 1..3 : lit(line, kindStart, kinds[k]) # 0 }
        kindEnd == IF kindAt = {} THEN 0 ELSE lit(line, kindStart, kinds[SetMin(kindAt)])
        pageStart == wsPlus(line, lit(line, wsPlus(line, lit(line, wsPlus(line, kindEnd),
                                                            Word.on)), Word.page))
        pageEnd == digitsPlus(line, pageStart)
        afterPage == optSeparator(line, IF pageEnd # 0 THEN pageEnd ELSE kindEnd)
        locStart == wsPlus(line, lit(line, afterPage, Word.location))
        locStartEnd == digitsPlus(line, locStart)
        locEnd == lit(line, locStartEnd, <<chHyphen>>)
        locEndEnd == digitsPlus(line, locEnd)
        afterLoc == IF locStartEnd = 0 THEN afterPage
                    ELSE optSeparator(line, IF locEndEnd # 0 THEN locEndEnd
                                            ELSE locStartEnd)
        dateStart == wsPlus(line, lit(line, wsPlus(line, lit(line, afterLoc, Word.added)),
                                      Word.on))
        dateOk == /\ dateStart # 0
                  /\ dateStart <= Len(line)
                  /\ \A k \in dateStart..Len(line) : ~isLineTerminator(line[k])
        end == IF dateOk THEN Len(line) + 1 ELSE afterLoc
    IN IF end # Len(line) + 1 THEN [matched |-> FALSE]
       ELSE [matched |-> TRUE,
             typeStr |-> SubSeq(line, kindStart, kindEnd - 1),
             pageStr |-> IF pageEnd # 0 THEN SubSeq(line, pageStart, pageEnd - 1)
                         ELSE <<>>,
             locStartStr |-> IF locStartEnd # 0
                             THEN SubSeq(line, locStart, locStartEnd - 1) ELSE <<>>,
             locEndStr |-> IF locStartEnd # 0 /\ locEndEnd # 0
                           THEN SubSeq(line, locEnd, locEndEnd - 1) ELSE <<>>,
             dateStr |-> IF dateOk THEN SubSeq(line, dateStart, Len(line)) ELSE <<>>]

\* the rest of TITLE_AUTHOR_REGEX from position p on: \s*\(([^)]+)\)\s*$ ;
\* the position of the closing parenthesis, or 0
parenthetical(line, p) ==
    LET open == lit(line, wsStar(line, p), <<chLParen>>)
        closes == IF open = 0 THEN {}
                  ELSE { q \in open..Len(line) : line[q] = chRParen }
        close == IF closes = {} THEN 0 ELSE SetMin(closes)
    IN IF close > open /\ wsStar(line, close + 1) = Len(line) + 1 THEN close ELSE 0

\* line.match(TITLE_AUTHOR_REGEX), the pattern ^(.*?)\s*\(([^)]+)\)\s*$ :
\* the shortest first group after which the rest matches
TITLE_AUTHOR_REGEX(line) ==
    LET firsts == { n \in 0..Len(line) :
                      /\ \A k \in 1..n : ~isLineTerminator(line[k])
                      /\ parenthetical(line, n + 1) # 0 }
        n == SetMin(firsts)
        close == parenthetical(line, n + 1)
        open == wsStar(line, n + 1)
    IN IF firsts = {} THEN [matched |-> FALSE]
       ELSE [matched |-> TRUE,
             titlePart |-> SubSeq(line, 1, n),
             authorPart |-> SubSeq(line, open + 1, close - 1)]

\* the position of the first occurrence of sep in str, or 0
indexOf(str, sep) ==
    LET at == { p \in 1..(Len(str) - Len(sep) + 1) :
                  SubSeq(str, p, p + Len(sep) - 1) = sep }
    IN IF at = {} THEN 0 ELSE SetMin(at)

\* str.split(sep) for a non-empty separator string
RECURSIVE split(_, _)
split(str, sep) ==
    LET p == indexOf(str, sep)
    IN IF p = 0 THEN <<str>>
       ELSE <<SubSeq(str, 1, p - 1)>> \o split(SubSeq(str, p + Len(sep), Len(str)), sep)

\* str.split(/\r?\n/)
RECURSIVE splitLines(_)
splitLines(str) ==
    LET p == indexOf(str, <<chLF>>)
        lineEnd == IF p > 1 /\ str[p - 1] = chCR THEN p - 2 ELSE p - 1
    IN IF p = 0 THEN <<str>>
       ELSE <<SubSeq(str, 1, lineEnd)>> \o splitLines(SubSeq(str, p + 1, Len(str)))

\* parseInt(str, 10) of a string of digits
RECURSIVE parseInt(_)
parseInt(str) ==
    IF Len(str) = 0 THEN 0
    ELSE 10 * parseInt(SubSeq(str, 1, Len(str) - 1)) + (str[Len(str)] - 48)

mapTrim(strs) == [k \in 1..Len(strs) |-> trim(strs[k])]

nonEmptyOf(strs) == SelectSeq(strs, LAMBDA l : Len(l) > 0)

(***************************************************************************)
(* The clippings parser: one entry                                         *)
(***************************************************************************)
\* title.trim().replace(/\s+/g, " ").replace(/[：﹕]/, ":").trim()
\* the colon pattern has no g flag: the first such colon only
normalizeTitle(title) ==
    LET collapsed == collapseWhitespace(trim(title))
        colons == { k \in 1..Len(collapsed) :
                      collapsed[k] \in {chFullwidthColon, chSmallColon} }
    IN trim([k \in 1..Len(collapsed) |->
                IF colons # {} /\ k = SetMin(colons) THEN chColon ELSE collapsed[k]])

\* the author name without the reordering around the comma
normalizeAuthorName_asWritten(name) == trim(name)

normalizeAuthorName(name) ==
    LET commaIndex == indexOf(name, <<chComma>>)
        last == trim(SubSeq(name, 1, commaIndex - 1))
        first == trim(SubSeq(name, commaIndex + 1, Len(name)))
    IN IF commaIndex = 0 THEN trim(name)
       ELSE IF Len(first) > 0 THEN first \o <<chSpace>> \o last
       ELSE last

parseAuthors(authorStr) ==
    LET rawAuthors == nonEmptyOf(mapTrim(split(authorStr, <<chSemicolon>>)))
    IN [k \in 1..Len(rawAuthors) |-> normalizeAuthorName(rawAuthors[k])]

\* parseTitleLine once line.match(TITLE_AUTHOR_REGEX) is known
titleOfMatch(line, match) ==
    IF ~match.matched
    THEN [title |-> normalizeTitle(line), rawTitle |-> line, authors |-> <<>>]
    ELSE [title |-> normalizeTitle(trim(match.titlePart)),
          rawTitle |-> line,
          authors |-> parseAuthors(trim(match.authorPart))]

parseTitleLine(line) == titleOfMatch(line, TITLE_AUTHOR_REGEX(line))

\* typeStr.toLowerCase(), one of the three words of the pattern
typeOf(typeStr) ==
    IF toLowerCase(typeStr) = Word.highlight THEN "highlight"
    ELSE IF toLowerCase(typeStr) = Word.note THEN "note"
    ELSE "bookmark"

\* parseMetaLine once line.match(METADATA_REGEX) is known; dateAdded is kept
\* as the captured string, trimmed: its conversion to a Date is not modelled
metaOfMatch(match) ==
    IF ~match.matched THEN [isNull |-> TRUE]
    ELSE [isNull |-> FALSE,
          type |-> typeOf(match.typeStr),
          page |-> IF Len(match.pageStr) > 0 THEN parseInt(match.pageStr) ELSE NoNum,
          locationStart |-> IF Len(match.locStartStr) > 0
                            THEN parseInt(match.locStartStr) ELSE NoNum,
          locationEnd |-> IF Len(match.locEndStr) > 0
                          THEN parseInt(match.locEndStr) ELSE NoNum,
          dateAdded |-> trim(match.dateStr)]

parseMetaLine(line) == metaOfMatch(METADATA_REGEX(line))

\* the key without the lower-casing of title and authors
makeBookKey_caseSensitive(title, authors) ==
    trim(collapseWhitespace(title)) \o <<chColon, chColon>>
    \o Join(sortStrings(authors), <<chComma>>)

makeBookKey(title, authors) ==
    LET titleKey == trim(collapseWhitespace(toLowerCase(title)))
        authorKey == Join(sortStrings([k \in 1..Len(authors) |-> toLowerCase(authors[k])]),
                          <<chComma>>)
    IN titleKey \o <<chColon, chColon>> \o authorKey

\* /your\s+kindle\s+account[^.]*content\s+limit/i or
\* /you\s+have\s+reached\s+the\s+clipping\s+limit/i somewhere in the text
isRestrictedPlaceholder(text) ==
    \E p \in 1..Len(text) :
        \/ LET q == litWords(text, p, <<Word.your, Word.kindle, Word.account>>)
           IN /\ q # 0
              /\ \E r \in q..Len(text) :
                    /\ \A k \in q..(r - 1) : text[k] # chPeriod
                    /\ litWords(text, r, <<Word.content, Word.limit>>) # 0
        \/ litWords(text, p, <<Word.you, Word.have, Word.reached, Word.the,
                               Word.clipping, Word.limit>>) # 0

\* parseEntry from the clip object on: the key, the book fields and the clip
entryOf(parsedTitle, meta, text) ==
    [isNull |-> FALSE,
     bookKey |-> makeBookKey(parsedTitle.title, parsedTitle.authors),
     book |-> parsedTitle,
     clip |-> [type |-> meta.type, page |-> meta.page,
               locationStart |-> meta.locationStart,
               locationEnd |-> meta.locationEnd,
               dateAdded |-> meta.dateAdded, text |-> text]]

\* parseEntry once the text is joined
entryOfText(titleLine, meta, text) ==
    IF isRestrictedPlaceholder(text) THEN [isNull |-> TRUE]
    ELSE IF Len(text) = 0 THEN [isNull |-> TRUE]
    ELSE entryOf(parseTitleLine(titleLine), meta, text)

\* parseEntry after parseMetaLine, without the return on a bookmark
entryOfMeta_keepsBookmarks(nonEmpty, meta) ==
    IF meta.isNull THEN [isNull |-> TRUE]
    ELSE entryOfText(nonEmpty[1], meta,
                     trim(Join(SubSeq(nonEmpty, 3, Len(nonEmpty)), <<chSpace>>)))

\* parseEntry after parseMetaLine
entryOfMeta(nonEmpty, meta) ==
    IF meta.isNull THEN [isNull |-> TRUE]
    ELSE IF meta.type = "bookmark" THEN [isNull |-> TRUE]
    ELSE entryOfText(nonEmpty[1], meta,
                     trim(Join(SubSeq(nonEmpty, 3, Len(nonEmpty)), <<chSpace>>)))

\* parseEntry once the non-empty lines are known
entryOfLines(nonEmpty) ==
    IF Len(nonEmpty) < 2 THEN [isNull |-> TRUE]
    ELSE entryOfMeta(nonEmpty, parseMetaLine(nonEmpty[2]))

\* parseEntry: null, or the key, the book fields and the clip of the entry
parseEntry(entryText) == entryOfLines(nonEmptyOf(mapTrim(splitLines(entryText))))

\* the comparator with the page taken before the location
compareByLocation_pageFirst(a, b) ==
    LET aLoc == IF a.page # NoNum THEN a.page
                ELSE IF a.locationStart # NoNum THEN a.locationStart ELSE 0
        bLoc == IF b.page # NoNum THEN b.page
                ELSE IF b.locationStart # NoNum THEN b.locationStart ELSE 0
    IN aLoc - bLoc

\* the sign of compareByLocation(a, b)
compareByLocation(a, b) ==
    LET aLoc == IF a.locationStart # NoNum THEN a.locationStart
                ELSE IF a.page # NoNum THEN a.page ELSE 0
        bLoc == IF b.locationStart # NoNum THEN b.locationStart
                ELSE IF b.page # NoNum THEN b.page ELSE 0
    IN aLoc - bLoc

\* Array.prototype.sort(compareByLocation): stable
RECURSIVE insertClip(_, _)
insertClip(sorted, clip) ==
    IF Len(sorted) = 0 THEN <<clip>>
    ELSE IF compareByLocation(sorted[Len(sorted)], clip) > 0
         THEN insertClip(SubSeq(sorted, 1, Len(sorted) - 1), clip)
              \o <<sorted[Len(sorted)]>>
         ELSE sorted \o <<clip>>

RECURSIVE sortClips(_)
sortClips(clips) ==
    IF Len(clips) = 0 THEN <<>>
    ELSE insertClip(sortClips(SubSeq(clips, 1, Len(clips) - 1)), clips[Len(clips)])

(***************************************************************************)
(* The clippings file: how its blocks are written                          *)
(***************************************************************************)
MaxBlocks == 3

\* the words of a metadata line as the device writes them
Written ==
    [Your |-> <<89, 111, 117, 114>>,
     Highlight |-> <<72, 105, 103, 104, 108, 105, 103, 104, 116>>,
     highlight |-> Word.highlight,
     Note |-> <<78, 111, 116, 101>>,
     Bookmark |-> <<66, 111, 111, 107, 109, 97, 114, 107>>,
     BOOKMARK |-> <<66, 79, 79, 75, 77, 65, 82, 75>>,
     on |-> Word.on,
     page |-> Word.page,
     Location |-> <<76, 111, 99, 97, 116, 105, 111, 110>>,
     Added |-> <<65, 100, 100, 101, 100>>]

CRLF == <<chCR, chLF>>

Spaces(n) == [k \in 1..n |-> chSpace]

\* an author as written between the parentheses: "Last, First", or a name
\* without comma
Piece(last, first) == [last |-> last, first |-> first]
Plain(name) == [last |-> name, first |-> <<>>]

PieceText(piece) ==
    IF piece.first = <<>> THEN piece.last
    ELSE piece.last \o <<chComma, chSpace>> \o piece.first

\* the title line: the words of the title, gap spaces between them, then the
\* authors in parentheses when there are any
TitleLineOf(b) ==
    Join(b.words, Spaces(b.gap))
    \o (IF Len(b.pieces) = 0 THEN <<>>
        ELSE <<chSpace, chLParen>>
             \o Join([k \in 1..Len(b.pieces) |-> PieceText(b.pieces[k])], <<chSemicolon>>)
             \o <<chRParen>>)

\* the metadata line: "- Your <kind> on page <p> | Location <s>-<e> | Added on <date>",
\* and without a page "- Your <kind> on Location <s>-<e> | Added on <date>"
MetaLineOf(b) ==
    <<chHyphen, chSpace>> \o Written.Your \o <<chSpace>> \o b.kindWord
    \o (IF b.page = NoNum THEN <<>>
        ELSE <<chSpace>> \o Written.on \o <<chSpace>> \o Written.page \o <<chSpace>>
             \o decimal(b.page))
    \o (IF b.locationStart = NoNum THEN <<>>
        ELSE (IF b.page = NoNum THEN <<chSpace>> \o Written.on \o <<chSpace>>
              ELSE <<chSpace, chBar, chSpace>>)
             \o Written.Location \o <<chSpace>> \o decimal(b.locationStart)
             \o (IF b.locationEnd = NoNum THEN <<>>
                 ELSE <<chHyphen>> \o decimal(b.locationEnd)))
    \o (IF ~b.date THEN <<>>
        ELSE <<chSpace, chBar, chSpace>> \o Written.Added \o <<chSpace>> \o Written.on
             \o <<chSpace>> \o <<Letter.t>>)

\* a block: title line, metadata line, an empty line, the body lines; a block
\* of the shape "blank" is an empty line, one of the shape "titleOnly" has
\* the title line alone
BlockText(b) ==
    IF b.shape = "blank" THEN CRLF
    ELSE IF b.shape = "titleOnly" THEN TitleLineOf(b) \o CRLF
    ELSE TitleLineOf(b) \o CRLF \o MetaLineOf(b) \o CRLF \o CRLF
         \o (IF Len(b.body) = 0 THEN <<>> ELSE Join(b.body, CRLF) \o CRLF)

\* the file: a byte order mark, then each block followed by the separator line
RECURSIVE BlocksText(_)
BlocksText(bs) ==
    IF Len(bs) = 0 THEN <<>>
    ELSE BlockText(bs[1]) \o ENTRY_SEPARATOR \o CRLF \o BlocksText(Tail(bs))

FileOf(bs) == <<chBOM>> \o BlocksText(bs)

Block(shape, words, gap, pieces, kind, kindWord, page, locationStart, locationEnd, date,
      body) ==
    [shape |-> shape, words |-> words, gap |-> gap, pieces |-> pieces, kind |-> kind,
     kindWord |-> kindWord, page |-> page, locationStart |-> locationStart,
     locationEnd |-> locationEnd, date |-> date, body |-> body]

\* the title lines: "ab c (ab, An;c)", "AB  c (C;an AB)" with the same key,
\* "ab c" without authors, and a title with a full-width colon
TitleAuthors ==
    [A |-> [words |-> <<MatchAuthors.ab, <<Letter.c>>>>, gap |-> 1,
            pieces |-> <<Piece(MatchAuthors.ab, MatchAuthors.An), Plain(<<Letter.c>>)>>],
     B |-> [words |-> <<<<65, 66>>, <<Letter.c>>>>, gap |-> 2,
            pieces |-> <<Plain(<<67>>), Plain(<<Letter.a, Letter.n, chSpace, 65, 66>>)>>],
     C |-> [words |-> <<MatchAuthors.ab, <<Letter.c>>>>, gap |-> 1, pieces |-> <<>>],
     D |-> [words |-> <<<<Letter.a, chFullwidthColon, Letter.b>>>>, gap |-> 1,
            pieces |-> <<Plain(MatchAuthors.ab)>>]]

Entry(ta, kind, kindWord, page, locationStart, locationEnd, body) ==
    Block("entry", ta.words, ta.gap, ta.pieces, kind, kindWord, page, locationStart,
          locationEnd, TRUE, body)

RestrictedText ==
    Join(<<Word.you, Word.have, Word.reached, Word.the, Word.clipping, Word.limit>>,
         <<chSpace>>)

ParseBlocks ==
    [hA3 |-> Entry(TitleAuthors.A, "highlight", Written.Highlight, 2, 3, 4,
                   <<MatchAuthors.ab>>),
     hA1 |-> Entry(TitleAuthors.A, "highlight", Written.Highlight, 5, 1, 1,
                   <<<<Letter.c>>>>),
     hB3 |-> Entry(TitleAuthors.B, "highlight", Written.Highlight, 2, 3, 4,
                   <<<<Letter.b, Letter.A>>, MatchAuthors.ab>>),
     nA3 |-> Entry(TitleAuthors.A, "note", Written.Note, 2, 3, NoNum, <<<<Letter.c>>>>),
     hCpage |-> Entry(TitleAuthors.C, "highlight", Written.Highlight, 2, NoNum, NoNum,
                      <<MatchAuthors.ab>>),
     hCnone |-> Entry(TitleAuthors.C, "highlight", Written.highlight, NoNum, NoNum,
                      NoNum, <<<<Letter.c>>>>),
     hCloc |-> Entry(TitleAuthors.C, "highlight", Written.Highlight, NoNum, 1, 2,
                     <<MatchAuthors.ab>>),
     hD |-> Entry(TitleAuthors.D, "highlight", Written.Highlight, 2, 3, 4,
                  <<MatchAuthors.ab>>),
     bkLoc |-> Entry(TitleAuthors.C, "bookmark", Written.Bookmark, NoNum, 1, NoNum, <<>>),
     bkPage |-> Entry(TitleAuthors.A, "bookmark", Written.BOOKMARK, 2, 3, NoNum,
                      <<MatchAuthors.ab>>),
     nAempty |-> Entry(TitleAuthors.A, "note", Written.Note, 2, 3, NoNum, <<>>),
     hArestricted |-> Entry(TitleAuthors.A, "highlight", Written.Highlight, 2, 3, 4,
                            <<RestrictedText>>),
     titleOnly |-> Block("titleOnly", TitleAuthors.C.words, 1, <<>>, "none", <<>>,
                         NoNum, NoNum, NoNum, FALSE, <<>>),
     blank |-> Block("blank", <<>>, 1, <<>>, "none", <<>>, NoNum, NoNum, NoNum, FALSE,
                     <<>>)]

BlockSet == { ParseBlocks[n] : n \in DOMAIN ParseBlocks }

(***************************************************************************)
(* The clippings parser: parseClippings                                    *)
(***************************************************************************)
\* the counts a raw entry is gone through with: documents, annotations of
\* all documents, skipped, errors
RECURSIVE totalClips(_)
totalClips(map) ==
    IF Len(map) = 0 THEN 0
    ELSE Len(map[1].highlights) + Len(map[1].notes) + totalClips(Tail(map))

Counts(map, skip, errs) ==
    [books |-> Len(map), clips |-> totalClips(map), skipped |-> skip, errors |-> Len(errs)]

InitParse ==
    /\ blockSpecs \in SeqsUpTo(BlockSet, MaxBlocks)
    /\ fileContent = FileOf(blockSpecs)
    /\ rawEntries = <<>>
    /\ pi = 0
    /\ bookMap = <<>>
    /\ skipped = 0
    /\ errors = <<>>
    /\ parseLog = <<>>
    /\ ppc = "start"
    /\ WizardIdle
    /\ SimIdle
    /\ LookupIdle
    /\ OtherIdle

\* fileContent.replace(/^﻿/, "").split(ENTRY_SEPARATOR)
ParseBegin ==
    /\ ppc = "start"
    /\ LET cleaned == IF Len(fileContent) > 0 /\ fileContent[1] = chBOM
                      THEN Tail(fileContent) ELSE fileContent
       IN rawEntries' = split(cleaned, ENTRY_SEPARATOR)
    /\ ppc' = "loop"
    /\ UNCHANGED <<blockSpecs, fileContent, pi, bookMap, skipped, errors, parseLog,
                   importVars, matchVars, simVars, lookupVars, otherVars>>

\* books.has(bookKey)
hasKey(map, bookKey) == \E k \in 1..Len(map) : map[k].key = bookKey

\* the position in the Map of the book that books.get(bookKey) gives
indexOfKey(map, bookKey) == CHOOSE k \in 1..Len(map) : map[k].key = bookKey

\* the set and push that leaves a note out
addClip_dropsNotes(map, result) ==
    LET withBook == IF hasKey(map, result.bookKey) THEN map
                    ELSE Append(map, [key |-> result.bookKey,
                                      title |-> result.book.title,
                                      rawTitle |-> result.book.rawTitle,
                                      authors |-> result.book.authors,
                                      highlights |-> <<>>, notes |-> <<>>])
    IN [k \in 1..Len(withBook) |->
           IF withBook[k].key = result.bookKey /\ result.clip.type = "highlight"
           THEN [withBook[k] EXCEPT !.highlights = Append(@, result.clip)]
           ELSE withBook[k]]

\* books.set(bookKey, {...}) when the key is new, then the push to the list
\* that the type of the clip names
addClip(map, result) ==
    LET withBook == IF hasKey(map, result.bookKey) THEN map
                    ELSE Append(map, [key |-> result.bookKey,
                                      title |-> result.book.title,
                                      rawTitle |-> result.book.rawTitle,
                                      authors |-> result.book.authors,
                                      highlights |-> <<>>, notes |-> <<>>])
    IN [k \in 1..Len(withBook) |->
           IF withBook[k].key # result.bookKey THEN withBook[k]
           ELSE IF result.clip.type = "highlight"
           THEN [withBook[k] EXCEPT !.highlights = Append(@, result.clip)]
           ELSE IF result.clip.type = "note"
           THEN [withBook[k] EXCEPT !.notes = Append(@, result.clip)]
           ELSE withBook[k]]

\* the loop body for an entry that parseEntry gave a result for
pushResult(result, before, newMap) ==
    /\ bookMap' = newMap
    /\ UNCHANGED skipped
    /\ parseLog' = Append(parseLog,
           [outcome |-> "clip", before |-> before,
            after |-> Counts(newMap, skipped, errors),
            bookKey |-> result.bookKey, book |-> result.book, clip |-> result.clip,
            into |-> indexOfKey(newMap, result.bookKey)])

\* the loop body after parseEntry
afterParseEntry(result, before) ==
    IF result.isNull
    THEN /\ skipped' = skipped + 1
         /\ UNCHANGED bookMap
         /\ parseLog' = Append(parseLog,
                [outcome |-> "skipped", before |-> before,
                 after |-> Counts(bookMap, skipped + 1, errors)])
    ELSE pushResult(result, before, addClip(bookMap, result))

\* the loop body for rawEntry.trim()
afterTrim(trimmed, before) ==
    IF Len(trimmed) = 0
    THEN /\ UNCHANGED <<bookMap, skipped>>
         /\ parseLog' = Append(parseLog,
                [outcome |-> "blank", before |-> before, after |-> before])
    ELSE afterParseEntry(parseEntry(trimmed), before)

\* one turn of the loop over rawEntries; parseEntry has no statement that
\* throws, so the catch block is never entered
ParseEntryStep ==
    /\ ppc = "loop"
    /\ pi < Len(rawEntries)
    /\ afterTrim(trim(rawEntries[pi + 1]), Counts(bookMap, skipped, errors))
    /\ pi' = pi + 1
    /\ UNCHANGED <<blockSpecs, fileContent, rawEntries, errors, ppc,
                   importVars, matchVars, simVars, lookupVars, otherVars>>

\* the two sorts of every book, and return { books, skipped, errors }
ParseReturn ==
    /\ ppc = "loop"
    /\ pi = Len(rawEntries)
    /\ bookMap' = [k \in 1..Len(bookMap) |->
                      [bookMap[k] EXCEPT !.highlights = sortClips(@),
                                         !.notes = sortClips(@)]]
    /\ ppc' = "returned"
    /\ UNCHANGED <<blockSpecs, fileContent, rawEntries, pi, skipped, errors, parseLog,
                   importVars, matchVars, simVars, lookupVars, otherVars>>

NextParse ==
    \/ ParseBegin
    \/ ParseEntryStep
    \/ ParseReturn

\* parseClippings on a file of up to MaxBlocks blocks
SpecParse == InitParse /\ [][NextParse]_vars

(***************************************************************************)
(* The metadata lookup of one book: lookupBook with the answers of the two *)
(* services.  A request is kept as the service and the title and author it *)
(* asks for, with the answer it got.                                       *)
(***************************************************************************)
MaxResults == 2

\* the floor lowered below the score of a poor result
CONFIDENCE_THRESHOLD_lowered == <<40, 100>>

CONFIDENCE_THRESHOLD == <<55, 100>>

\* scoreTitleMatch: the tokens of both titles, then the larger of the Dice
\* coefficient and 0.9 times the containment of the smaller set
scoreTitleMatch(queryTitle, resultTitle) ==
    LET a == tokenize(queryTitle)
        b == tokenize(resultTitle)
        dice == <<2 * Cardinality(a \cap b), Cardinality(a) + Cardinality(b)>>
        smaller == IF Cardinality(a) <= Cardinality(b) THEN a ELSE b
        larger == IF Cardinality(a) <= Cardinality(b) THEN b ELSE a
        containment == <<9 * Cardinality(smaller \cap larger), 10 * Cardinality(smaller)>>
    IN IF Cardinality(a) = 0 /\ Cardinality(b) = 0 THEN <<1, 1>>
       ELSE IF Cardinality(a) = 0 \/ Cardinality(b) = 0 THEN <<0, 1>>
       ELSE IF ratGE(dice, containment) THEN dice ELSE containment

\* the titles a service answers with: "abc", "abcb", "ab cn", and an entry
\* without title
ResultTitles ==
    { MatchTitles.abc, MatchTitles.abcb,
      <<Letter.a, Letter.b, chSpace, Letter.c, Letter.n>>, <<>> }

\* what http(url) and res.json() give: http(url) rejects ("throws"), a
\* response that is not ok, a body that is not JSON ("badJson": res.json()
\* rejects), a JSON value without the list of entries ("noList"), or a list
\* of up to MaxResults entries
Responses ==
    { [kind |-> k, items |-> <<>>] : k \in {"throws", "notOk", "badJson", "noList"} }
    \cup { [kind |-> "ok", items |-> items] :
             items \in SeqsUpTo([title : ResultTitles], MaxResults) }

\* .map(...).sort((a, b) => b.score - a.score)[0] over the scores of the
\* entries: the first entry of the highest score
firstBest(items, scores) ==
    LET k == CHOOSE n \in 1..Len(items) :
                /\ \A m \in 1..Len(items) : ratGE(scores[n], scores[m])
                /\ \A m \in 1..(n - 1) : ~ratGE(scores[m], scores[n])
    IN [item |-> items[k], score |-> scores[k]]

bestOf(title, items) ==
    firstBest(items, [k \in 1..Len(items) |-> scoreTitleMatch(title, items[k].title)])

\* null for a best entry under the floor, else its metadata with the score
\* as confidence
metadataOf(source, best) ==
    IF ~ratGE(best.score, CONFIDENCE_THRESHOLD) THEN [isNull |-> TRUE]
    ELSE [isNull |-> FALSE, title |-> best.item.title, source |-> source,
          confidence |-> best.score]

\* the search without its try/catch: an exception of http(url) or of
\* res.json() leaves the function
searchResult_noCatch(source, title, response) ==
    IF response.kind \in {"throws", "badJson"} THEN [isNull |-> TRUE, threw |-> TRUE]
    ELSE IF response.kind \in {"notOk", "noList"} THEN [isNull |-> TRUE]
    ELSE IF Len(response.items) = 0 THEN [isNull |-> TRUE]
    ELSE metadataOf(source, bestOf(title, response.items))

\* searchGoogleBooks and searchOpenLibrary after the request: null, or the
\* metadata of the best entry
searchResult(source, title, response) ==
    IF response.kind \in {"throws", "badJson"} THEN [isNull |-> TRUE]  \* catch
    ELSE IF response.kind = "notOk" THEN [isNull |-> TRUE]             \* !res.ok
    ELSE IF response.kind = "noList" THEN [isNull |-> TRUE]            \* !data.items
    ELSE IF Len(response.items) = 0 THEN [isNull |-> TRUE]
    ELSE metadataOf(source, bestOf(title, response.items))

\* the awaited search rejected: lookupBook has no try/catch of its own
rejects(result) == "threw" \in DOMAIN result

\* result && result.confidence >= CONFIDENCE_THRESHOLD
accepted(result) == ~result.isNull /\ ratGE(result.confidence, CONFIDENCE_THRESHOLD)

\* authors[0] || ""
authorStrOf(parsedBook) ==
    IF Len(parsedBook.authors) = 0 THEN <<>> ELSE parsedBook.authors[1]

Request(api, title, author, response) ==
    [api |-> api, title |-> title, author |-> author, response |-> response]

LookupTitles == { MatchTitles.abc, <<Letter.a>> }

InitLookup ==
    /\ lkBook \in [title : LookupTitles, authors : {<<>>, <<MatchAuthors.ab>>}]
    /\ lkpc = "googleWithAuthor"
    /\ lkRequests = <<>>
    /\ lkResult = [source |-> "none"]
    /\ WizardIdle
    /\ SimIdle
    /\ ParseIdle
    /\ OtherIdle

\* what lookupBook returns on an accepted result
returned(result) ==
    [title |-> result.title, source |-> result.source, confidence |-> result.confidence]

\* one Google Books attempt: return on an accepted result, else go on
googleAttempt(result, next) ==
    IF rejects(result)
    THEN /\ UNCHANGED lkResult
         /\ lkpc' = "rejected"
    ELSE IF accepted(result)
    THEN /\ lkResult' = returned(result)
         /\ lkpc' = "returned"
    ELSE /\ UNCHANGED lkResult
         /\ lkpc' = next

\* 1. Google Books: title + author
SearchGoogleWithAuthor ==
    /\ lkpc = "googleWithAuthor"
    /\ \E response \in Responses :
         /\ lkRequests' = Append(lkRequests,
                Request("google", lkBook.title, authorStrOf(lkBook), response))
         /\ googleAttempt(searchResult("google", lkBook.title, response),
                          IF Len(authorStrOf(lkBook)) > 0 THEN "googleTitleOnly"
                          ELSE "openLibrary")
    /\ UNCHANGED <<lkBook, importVars, matchVars, simVars, parseVars, otherVars>>

\* 2. Google Books: title only
SearchGoogleTitleOnly ==
    /\ lkpc = "googleTitleOnly"
    /\ \E response \in Responses :
         /\ lkRequests' = Append(lkRequests,
                Request("google", lkBook.title, <<>>, response))
         /\ googleAttempt(searchResult("google", lkBook.title, response), "openLibrary")
    /\ UNCHANGED <<lkBook, importVars, matchVars, simVars, parseVars, otherVars>>

\* the end of lookupBook: the accepted result, else the record made of what
\* the file gave
lastAttempt(result) ==
    IF rejects(result)
    THEN /\ UNCHANGED lkResult
         /\ lkpc' = "rejected"
    ELSE /\ lkResult' = IF accepted(result) THEN returned(result)
                        ELSE kindleFallback(lkBook)
         /\ lkpc' = "returned"

\* 3. Open Library, and 4. kindleFallback
SearchOpenLibrary ==
    /\ lkpc = "openLibrary"
    /\ \E response \in Responses :
         /\ lkRequests' = Append(lkRequests,
                Request("openlibrary", lkBook.title, authorStrOf(lkBook), response))
         /\ lastAttempt(searchResult("openlibrary", lkBook.title, response))
    /\ UNCHANGED <<lkBook, importVars, matchVars, simVars, parseVars, otherVars>>

NextLookup ==
    \/ SearchGoogleWithAuthor
    \/ SearchGoogleTitleOnly
    \/ SearchOpenLibrary

\* lookupBook on one book, whatever the services answer
SpecLookup == InitLookup /\ [][NextLookup]_vars

(***************************************************************************)
(* lookupAllUnmatched: the lookups of a list of books, one after the       *)
(* other.  Each lookup is lookupBook as above, on the lookup's variables.  *)
(***************************************************************************)
MaxBatch == 2

\* the flag taken from the source alone
needsReview_kindleOnly(metadata) == metadata.source = "kindle"

\* metadata.source === "kindle" || metadata.confidence < 0.75
needsReview(metadata) ==
    metadata.source = "kindle" \/ ~ratGE(metadata.confidence, <<75, 100>>)

BatchBooks ==
    { [title |-> MatchTitles.abc, authors |-> <<MatchAuthors.ab>>],
      [title |-> <<Letter.a>>, authors |-> <<>>] }

Event(op, i) == [op |-> op, i |-> i]

InitBatch ==
    /\ unmatchedBooks \in SeqsUpTo([parsedBook : BatchBooks], MaxBatch)
    /\ bi = 0
    /\ results = <<>>
    /\ batchLog = <<>>
    /\ bpc = "loop"
    /\ FpIdle
    /\ LookupIdle
    /\ WizardIdle
    /\ SimIdle
    /\ ParseIdle

\* const metadata = await lookupBook(parsedBook, fetchFn): the call
BatchCallLookup ==
    /\ bpc = "loop"
    /\ bi < Len(unmatchedBooks)
    /\ lkBook' = unmatchedBooks[bi + 1].parsedBook
    /\ lkpc' = "googleWithAuthor"
    /\ lkRequests' = <<>>
    /\ lkResult' = [source |-> "none"]
    /\ batchLog' = Append(batchLog, Event("lookupBook", bi + 1))
    /\ bpc' = "awaitLookup"
    /\ UNCHANGED <<unmatchedBooks, bi, results, importVars, matchVars, simVars, parseVars, fpVars>>

\* lookupBook has returned: results.push, onProgress(i + 1, total, title),
\* then the sleep unless this was the last book
BatchAfterLookup ==
    /\ bpc = "awaitLookup"
    /\ lkpc = "returned"
    /\ results' = Append(results,
           [parsedBook |-> unmatchedBooks[bi + 1].parsedBook,
            metadata |-> lkResult,
            needsReview |-> needsReview(lkResult)])
    /\ batchLog' = batchLog
           \o <<Event("returned", bi + 1),
                [op |-> "onProgress", i |-> bi + 1, done |-> bi + 1,
                 total |-> Len(unmatchedBooks),
                 title |-> unmatchedBooks[bi + 1].parsedBook.title]>>
    /\ IF bi < Len(unmatchedBooks) - 1
       THEN /\ bpc' = "sleep"
            /\ UNCHANGED bi
       ELSE /\ bpc' = "loop"
            /\ bi' = bi + 1
    /\ lkBook' = [title |-> <<>>, authors |-> <<>>]
    /\ lkpc' = "idle"
    /\ lkRequests' = <<>>
    /\ lkResult' = [source |-> "none"]
    /\ UNCHANGED <<unmatchedBooks, importVars, matchVars, simVars, parseVars, fpVars>>

\* await sleep(300), then i++
BatchSleep ==
    /\ bpc = "sleep"
    /\ batchLog' = Append(batchLog, Event("sleep", bi + 1))
    /\ bi' = bi + 1
    /\ bpc' = "loop"
    /\ UNCHANGED <<unmatchedBooks, results, importVars, matchVars, simVars, parseVars,
                   lookupVars, fpVars>>

\* return results
BatchReturn ==
    /\ bpc = "loop"
    /\ bi = Len(unmatchedBooks)
    /\ bpc' = "returned"
    /\ UNCHANGED <<unmatchedBooks, bi, results, batchLog, importVars, matchVars, simVars,
                   parseVars, lookupVars, fpVars>>

NextBatch ==
    \/ BatchCallLookup
    \/ SearchGoogleWithAuthor
    \/ SearchGoogleTitleOnly
    \/ SearchOpenLibrary
    \/ BatchAfterLookup
    \/ BatchSleep
    \/ BatchReturn

\* lookupAllUnmatched on up to MaxBatch books, whatever the services answer
SpecBatch == InitBatch /\ [][NextBatch]_vars

(***************************************************************************)
(* The note as text: buildNoteHTML, and parseNoteFingerprint on what it    *)
(* wrote.  The importer above keeps of a note only what these give.        *)
(***************************************************************************)
\* the literal texts of buildNoteHTML, escapeHTML, formatLocation and
\* FINGERPRINT_COMMENT_RE, by character code
Html ==
    [commentOpen |-> <<60, 33, 45, 45, 32, 107, 105, 110, 100, 108, 101, 45, 105, 109, 112,
         111, 114, 116, 45, 109, 101, 116, 97, 58, 32>>,
     commentClose |-> <<32, 45, 45, 62>>,
     h1 |-> <<60, 104, 49, 62, 75, 105, 110, 100, 108, 101, 32, 78, 111, 116, 101, 115, 60,
         47, 104, 49, 62>>,
     strongOpen |-> <<60, 112, 62, 60, 115, 116, 114, 111, 110, 103, 62>>,
     strongClose |-> <<60, 47, 115, 116, 114, 111, 110, 103, 62, 60, 47, 112, 62>>,
     importedOn |-> <<60, 112, 62, 60, 101, 109, 62, 73, 109, 112, 111, 114, 116, 101, 100,
         32, 111, 110, 32>>,
     dash |-> <<32, 226, 8364, 8221, 32>>,
     highlight |-> <<32, 104, 105, 103, 104, 108, 105, 103, 104, 116>>,
     note |-> <<32, 110, 111, 116, 101>>,
     emClose |-> <<60, 47, 101, 109, 62, 60, 47, 112, 62>>,
     hr |-> <<60, 104, 114, 47, 62>>,
     quoteOpen |-> <<60, 98, 108, 111, 99, 107, 113, 117, 111, 116, 101, 62>>,
     quoteClose |-> <<60, 47, 98, 108, 111, 99, 107, 113, 117, 111, 116, 101, 62>>,
     noteOpen |-> <<60, 112, 62, 60, 115, 116, 114, 111, 110, 103, 62, 287, 376, 8220, 32,
         78, 111, 116, 101, 58, 60, 47, 115, 116, 114, 111, 110, 103, 62, 32>>,
     pClose |-> <<60, 47, 112, 62>>,
     smallOpen |-> <<60, 112, 62, 60, 115, 109, 97, 108, 108, 62>>,
     smallClose |-> <<60, 47, 115, 109, 97, 108, 108, 62, 60, 47, 112, 62>>,
     empty |-> <<60, 112, 62, 60, 47, 112, 62>>,
     page |-> <<80, 97, 103, 101, 32>>,
     location |-> <<76, 111, 99, 97, 116, 105, 111, 110, 32>>,
     dot |-> <<32, 194, 183, 32>>,
     noLocation |-> <<78, 111, 32, 108, 111, 99, 97, 116, 105, 111, 110, 32, 100, 97, 116,
         97>>,
     amp |-> <<38, 97, 109, 112, 59>>,
     lt |-> <<38, 108, 116, 59>>,
     gt |-> <<38, 103, 116, 59>>,
     quot |-> <<38, 113, 117, 111, 116, 59>>,
     apos |-> <<38, 35, 51, 57, 59>>,
     open |-> <<60, 33, 45, 45>>,
     meta |-> <<107, 105, 110, 100, 108, 101, 45, 105, 109, 112, 111, 114, 116, 45, 109,
         101, 116, 97, 58>>,
     close |-> <<45, 45, 62>>,
     count |-> <<99, 111, 117, 110, 116>>,
     hash |-> <<104, 97, 115, 104>>,
     kindleKey |-> <<107, 105, 110, 100, 108, 101, 75, 101, 121>>]

chQuote == 34
chAmp == 38
chSlash == 47
chLess == 60
chGreater == 62
chBackslash == 92
chLBrace == 123

\* a literal of a pattern without the i flag, at position p of str: the
\* position after it, or 0
exact(str, p, word) ==
    IF /\ p # 0
       /\ p + Len(word) - 1 <= Len(str)
       /\ SubSeq(str, p, p + Len(word) - 1) = word
    THEN p + Len(word) ELSE 0

\* the five replacements of escapeHTML; "&" is replaced first, so the "&" of
\* a replacement is never replaced again
escapeHTML(str) ==
    Join([k \in 1..Len(str) |->
             IF str[k] = chAmp THEN Html.amp
             ELSE IF str[k] = chLess THEN Html.lt
             ELSE IF str[k] = chGreater THEN Html.gt
             ELSE IF str[k] = chQuote THEN Html.quot
             ELSE IF str[k] = chApostrophe THEN Html.apos
             ELSE <<str[k]>>],
         <<>>)

\* formatLocation for a clip without dateAdded
formatLocation(clip) ==
    LET pagePart == IF clip.page # NoNum /\ clip.page # 0
                    THEN << Html.page \o decimal(clip.page) >> ELSE <<>>
        locPart == IF clip.locationStart # NoNum /\ clip.locationStart # 0
                   THEN << Html.location \o decimal(clip.locationStart) >> ELSE <<>>
    IN IF Len(pagePart \o locPart) = 0 THEN Html.noLocation
       ELSE Join(pagePart \o locPart, Html.dot)

\* JSON.stringify of one character of a string
jsonEscape(c) ==
    IF c = chQuote THEN <<chBackslash, chQuote>>
    ELSE IF c = chBackslash THEN <<chBackslash, chBackslash>>
    ELSE IF c = 8 THEN <<chBackslash, 98>>
    ELSE IF c = 9 THEN <<chBackslash, 116>>
    ELSE IF c = 10 THEN <<chBackslash, 110>>
    ELSE IF c = 12 THEN <<chBackslash, 102>>
    ELSE IF c = 13 THEN <<chBackslash, 114>>
    ELSE IF c < 32 THEN <<chBackslash, 117>> \o hex4(c)
    ELSE <<c>>

\* JSON.stringify of a string
jsonQuote(str) ==
    <<chQuote>> \o Join([k \in 1..Len(str) |-> jsonEscape(str[k])], <<>>) \o <<chQuote>>

\* JSON.stringify(fp) for fp = { count, hash, kindleKey }
JSONstringify(fp) ==
    <<chLBrace>>
    \o jsonQuote(Html.count) \o <<chColon>> \o decimal(fp.count) \o <<chComma>>
    \o jsonQuote(Html.hash) \o <<chColon>> \o jsonQuote(fp.hash) \o <<chComma>>
    \o jsonQuote(Html.kindleKey) \o <<chColon>> \o jsonQuote(fp.kindleKey)
    \o <<chRBrace>>

\* `<!-- kindle-import-meta: ${JSON.stringify(fp)} -->`
metaComment(fp) == Html.commentOpen \o JSONstringify(fp) \o Html.commentClose

\* the lines of one clip
clipLines(clip) ==
    << IF clip.type = "highlight"
       THEN Html.quoteOpen \o escapeHTML(clip.text) \o Html.quoteClose
       ELSE Html.noteOpen \o escapeHTML(clip.text) \o Html.pClose,
       Html.smallOpen \o formatLocation(clip) \o Html.smallClose,
       Html.empty >>

RECURSIVE allClipLines(_)
allClipLines(clips) ==
    IF Len(clips) = 0 THEN <<>> ELSE clipLines(clips[1]) \o allClipLines(Tail(clips))

\* "s" unless n = 1
plural(n) == IF n # 1 THEN <<115>> ELSE <<>>

\* the text buildNoteHTML returns; importDate is what toLocaleDateString gave
noteHTML(parsedBook, importDate) ==
    Join(<< metaComment(computeFingerprint(parsedBook)),
            Html.h1,
            Html.strongOpen \o escapeHTML(parsedBook.title) \o Html.strongClose,
            Html.importedOn \o importDate \o Html.dash
                \o decimal(Len(parsedBook.highlights)) \o Html.highlight
                \o plural(Len(parsedBook.highlights)) \o <<chComma, chSpace>>
                \o decimal(Len(parsedBook.notes)) \o Html.note
                \o plural(Len(parsedBook.notes)) \o Html.emClose,
            Html.hr >>
         \o allClipLines(sortByLocation(parsedBook.highlights \o parsedBook.notes)),
         <<chLF>>)

\* the first position from p on at which str holds c, Len(str) + 1 if none
firstAt(str, p, c) ==
    SetMin({ q \in p..(Len(str) + 1) : q = Len(str) + 1 \/ str[q] = c })

\* (\{[^}]+\}) at position p: the position after the capture, or 0; [^}]+
\* runs up to the first "}" and needs one character at least
braces(str, p) ==
    IF p = 0 \/ p > Len(str) THEN 0
    ELSE IF str[p] # chLBrace THEN 0
    ELSE IF firstAt(str, p + 1, chRBrace) > Len(str) THEN 0
    ELSE IF firstAt(str, p + 1, chRBrace) = p + 1 THEN 0
    ELSE firstAt(str, p + 1, chRBrace) + 1

\* the pattern from its capture on, the capture starting at position p
commentFrom(str, p) ==
    IF exact(str, wsStar(str, braces(str, p)), Html.close) = 0
    THEN [matched |-> FALSE]
    ELSE [matched |-> TRUE, capture |-> SubSeq(str, p, braces(str, p) - 1)]

\* FINGERPRINT_COMMENT_RE tried at position p
commentAt(str, p) ==
    commentFrom(str, wsStar(str, exact(str, wsStar(str, exact(str, p, Html.open)),
                                       Html.meta)))

\* html.match(FINGERPRINT_COMMENT_RE): the match at the first position that
\* has one
matchFingerprintComment(html) ==
    IF \E p \in 1..Len(html) : commentAt(html, p).matched
    THEN commentAt(html, SetMin({ p \in 1..Len(html) : commentAt(html, p).matched }))
    ELSE [matched |-> FALSE]

\* JSON.parse, for the texts the capture can hold: an object whose values
\* are strings and non-negative integers.  A step gives [ok, end, value].
jsonFail == [ok |-> FALSE, end |-> 0, value |-> <<>>]

jsonWs(str, p) ==
    SetMin({ q \in p..(Len(str) + 1) : q = Len(str) + 1 \/ str[q] \notin {9, 10, 13, 32} })

hexValue(c) ==
    IF c \in 48..57 THEN c - 48
    ELSE IF c \in 97..102 THEN c - 87
    ELSE IF c \in 65..70 THEN c - 55
    ELSE NoNum

\* the character an escape stands for, NoNum for no escape; e is the
\* character after the backslash
unescaped(e) ==
    IF e \in {chQuote, chBackslash, chSlash} THEN e
    ELSE IF e = 98 THEN 8
    ELSE IF e = 102 THEN 12
    ELSE IF e = 110 THEN 10
    ELSE IF e = 114 THEN 13
    ELSE IF e = 116 THEN 9
    ELSE NoNum

\* the characters of a string from position p on, up to its closing quote
RECURSIVE jsonChars(_, _, _)
jsonChars(str, p, acc) ==
    IF p > Len(str) THEN jsonFail
    ELSE IF str[p] = chQuote THEN [ok |-> TRUE, end |-> p + 1, value |-> acc]
    ELSE IF str[p] < 32 THEN jsonFail
    ELSE IF str[p] # chBackslash THEN jsonChars(str, p + 1, Append(acc, str[p]))
    ELSE IF p + 1 > Len(str) THEN jsonFail
    ELSE IF str[p + 1] = 117
    THEN IF /\ p + 5 <= Len(str)
            /\ \A k \in 2..5 : hexValue(str[p + k]) # NoNum
         THEN jsonChars(str, p + 6,
                        Append(acc, 4096 * hexValue(str[p + 2]) + 256 * hexValue(str[p + 3])
                                    + 16 * hexValue(str[p + 4]) + hexValue(str[p + 5])))
         ELSE jsonFail
    ELSE IF unescaped(str[p + 1]) = NoNum THEN jsonFail
    ELSE jsonChars(str, p + 2, Append(acc, unescaped(str[p + 1])))

jsonString(str, p) ==
    IF p > Len(str) THEN jsonFail
    ELSE IF str[p] # chQuote THEN jsonFail
    ELSE jsonChars(str, p + 1, <<>>)

\* 0, or digits without a leading 0
jsonNumber(str, p) ==
    IF digitsPlus(str, p) = 0 THEN jsonFail
    ELSE IF str[p] = 48 /\ digitsPlus(str, p) > p + 1 THEN jsonFail
    ELSE [ok |-> TRUE, end |-> digitsPlus(str, p),
          value |-> parseInt(SubSeq(str, p, digitsPlus(str, p) - 1))]

jsonValue(str, p) ==
    IF p > Len(str) THEN jsonFail
    ELSE IF str[p] = chQuote THEN jsonString(str, p)
    ELSE jsonNumber(str, p)

\* the members of an object from position p on, up to its "}"; value is the
\* sequence of <<name, value>> read
RECURSIVE jsonMembers(_, _, _)
RECURSIVE jsonMemberValue(_, _, _)
RECURSIVE jsonMemberEnd(_, _, _, _)

jsonMembers(str, p, acc) == jsonMemberValue(str, jsonString(str, jsonWs(str, p)), acc)

jsonMemberValue(str, name, acc) ==
    IF ~name.ok THEN jsonFail
    ELSE IF jsonWs(str, name.end) > Len(str) THEN jsonFail
    ELSE IF str[jsonWs(str, name.end)] # chColon THEN jsonFail
    ELSE jsonMemberEnd(str, name.value,
                       jsonValue(str, jsonWs(str, jsonWs(str, name.end) + 1)), acc)

jsonMemberEnd(str, name, val, acc) ==
    IF ~val.ok THEN jsonFail
    ELSE IF jsonWs(str, val.end) > Len(str) THEN jsonFail
    ELSE IF str[jsonWs(str, val.end)] = chComma
    THEN jsonMembers(str, jsonWs(str, val.end) + 1, Append(acc, <<name, val.value>>))
    ELSE IF str[jsonWs(str, val.end)] = chRBrace
    THEN [ok |-> TRUE, end |-> jsonWs(str, val.end) + 1,
          value |-> Append(acc, <<name, val.value>>)]
    ELSE jsonFail

\* the object is the whole text, white space around it aside
jsonObjectEnd(str, obj) ==
    IF obj.ok /\ jsonWs(str, obj.end) = Len(str) + 1 THEN obj ELSE jsonFail

JSONparse(text) ==
    IF jsonWs(text, 1) > Len(text) THEN jsonFail
    ELSE IF text[jsonWs(text, 1)] # chLBrace THEN jsonFail
    ELSE IF /\ jsonWs(text, jsonWs(text, 1) + 1) <= Len(text)
            /\ text[jsonWs(text, jsonWs(text, 1) + 1)] = chRBrace
    THEN jsonObjectEnd(text, [ok |-> TRUE, end |-> jsonWs(text, jsonWs(text, 1) + 1) + 1,
                              value |-> <<>>])
    ELSE jsonObjectEnd(text, jsonMembers(text, jsonWs(text, 1) + 1, <<>>))

\* the property name of a parsed object: the value of its last member of
\* that name, undefined if there is none
propertyOf(members, name) ==
    IF \E k \in 1..Len(members) : members[k][1] = name
    THEN members[SetMin({ k \in 1..Len(members) :
                            /\ members[k][1] = name
                            /\ \A m \in (k + 1)..Len(members) : members[m][1] # name })][2]
    ELSE "undefined"

\* parseNoteFingerprint after JSON.parse: null in the catch block, else
\* the parsed object
fingerprintOfParse(parsed) ==
    IF ~parsed.ok THEN [isNull |-> TRUE]
    ELSE [isNull |-> FALSE,
          count |-> propertyOf(parsed.value, Html.count),
          hash |-> propertyOf(parsed.value, Html.hash),
          kindleKey |-> propertyOf(parsed.value, Html.kindleKey)]

\* parseNoteFingerprint after the match
fingerprintOfMatch(match) ==
    IF ~match.matched THEN [isNull |-> TRUE]
    ELSE fingerprintOfParse(JSONparse(match.capture))

\* parseNoteFingerprint on the text of a note
storedFingerprint(html) == fingerprintOfMatch(matchFingerprintComment(html))

(***************************************************************************)
(* The fingerprint functions on one book                                   *)
(***************************************************************************)
MaxClips == 2

Clip(type, locationStart, text) ==
    [type |-> type, text |-> text, page |-> NoNum, locationStart |-> locationStart]

\* two highlights at location 1 and one at location 2
FpHighlights ==
    { Clip("highlight", 1, <<Letter.a, Letter.b>>),
      Clip("highlight", 1, <<Letter.a, Letter.a>>),
      Clip("highlight", 2, <<Letter.a, Letter.b>>) }

FpNotes == { Clip("note", 1, <<Letter.b, chLess, Letter.A>>) }

\* "t", "t}", "a"b" with a quotation mark, "A  c" and "t\"
FpTitles ==
    { <<Letter.t>>, <<Letter.t, chRBrace>>, <<Letter.a, chQuote, Letter.b>>,
      <<Letter.A, chSpace, chSpace, Letter.c>>, <<Letter.t, chBackslash>> }

FpAuthors == { <<>>, << <<Letter.c, chSpace, Letter.A>> >> }

\* the orders of a list
Orders(list) ==
    { [k \in 1..Len(list) |-> list[f[k]]] :
        f \in { g \in [1..Len(list) -> 1..Len(list)] :
                  \A i, j \in 1..Len(list) : i # j => g[i] # g[j] } }

\* new Date().toLocaleDateString("en-US", ...): "November 1, 2026"
ImportDates ==
    { <<78, 111, 118, 101, 109, 98, 101, 114, 32, 49, 44, 32, 50, 48, 50, 54>> }

InitFingerprint ==
    /\ fpBook \in [title : FpTitles, authors : FpAuthors,
                    highlights : SeqsUpTo(FpHighlights, MaxClips),
                    notes : SeqsUpTo(FpNotes, 1)]
    /\ fpShuffled \in [title : {fpBook.title}, authors : {fpBook.authors},
                        highlights : Orders(fpBook.highlights),
                        notes : Orders(fpBook.notes)]
    /\ fpResult = [op |-> "none"]
    /\ BatchIdle
    /\ LookupIdle
    /\ WizardIdle
    /\ SimIdle
    /\ ParseIdle

\* computeFingerprint called twice on the book, and once on the book with
\* its lists in the other order
CallComputeFingerprint ==
    /\ fpResult' = [op |-> "computeFingerprint",
                    first |-> computeFingerprint(fpBook),
                    again |-> computeFingerprint(fpBook),
                    shuffled |-> computeFingerprint(fpShuffled)]
    /\ UNCHANGED <<fpBook, fpShuffled, importVars, matchVars, simVars, parseVars,
                   lookupVars, batchVars>>

\* what a later run reads in a note of this text
readBack(html) ==
    [op |-> "buildNoteHTML", html |-> html, stored |-> storedFingerprint(html)]

\* buildNoteHTML on the book, then parseNoteFingerprint on the text
CallBuildNoteHTML ==
    /\ \E importDate \in ImportDates : fpResult' = readBack(noteHTML(fpBook, importDate))
    /\ UNCHANGED <<fpBook, fpShuffled, importVars, matchVars, simVars, parseVars,
                   lookupVars, batchVars>>

NextFingerprint ==
    \/ CallComputeFingerprint
    \/ CallBuildNoteHTML

\* the fingerprint functions on every book
SpecFingerprint == InitFingerprint /\ [][NextFingerprint]_vars

(***************************************************************************)
(* Claims about the importer and the wizard                                *)
(***************************************************************************)
\* importAll has returned its report ("dismissed": to a cancelled wizard)
ImportReturned == pc \in {"done", "dismissed"}

OpsOf(cs) == [k \in 1..Len(cs) |-> cs[k].op]

NoteCalls(cs) == SelectSeq(cs, LAMBDA c : c.op \in {"createNote", "deleteNote"})

\* the titles of the documents of this run, in processing order
WorkTitles ==
    [k \in 1..Len(Pairs) |-> Pairs[k].parsedBook.title]
    \o [k \in 1..Len(lookupResults) |-> lookupResults[k].parsedBook.title]

\* the same (document title, catalog item) pairs as in the previous run
SamePairsAsBefore ==
    /\ Len(prev.pairs) = Len(Pairs)
    /\ \A k \in 1..Len(Pairs) :
          /\ prev.pairs[k].parsedBook.title = Pairs[k].parsedBook.title
          /\ prev.pairs[k].zoteroItem = Pairs[k].zoteroItem

\* C1: after a run without failures, a second run over the same pairs and
\* the same unchanged documents adds nothing, updates nothing, skips every
\* pair and issues no createNote and no deleteNote.
C1_SecondRunSkipsAll ==
    (/\ run > 1
     /\ ImportReturned
     /\ prev.returned
     /\ prev.clean
     /\ prev.mutated = <<>>
     /\ prev.pairs = Pairs
     /\ Len(lookupResults) = 0)
    => /\ report.notesAdded = 0
       /\ report.notesUpdated = 0
       /\ report.skipped = Len(Pairs)
       /\ \A k \in 1..Len(calls) : calls[k].op \notin {"createNote", "deleteNote"}

\* what a reader finds in an existing artifact: a fingerprint, or nothing
\* (no comment in it, or the comment's capture is cut at a "}" of the key)
StoredReadable(o) ==
    /\ o.existing.html.marker
    /\ \A k \in 1..Len(o.existing.html.meta.kindleKey) :
          o.existing.html.meta.kindleKey[k] # chRBrace

\* the three outcomes of attachNoteToExisting, decided by sameAsStored
ThreeOutcomes(o, sameAsStored) ==
    /\ ~o.existed
          => /\ o.result = "added"
             /\ NoteCalls(o.calls) = <<Call("createNote", o.item)>>
    /\ o.existed /\ sameAsStored
          => /\ o.result = "skipped"
             /\ NoteCalls(o.calls) = <<>>
    /\ o.existed /\ ~sameAsStored
          => /\ o.result = "updated"
             /\ NoteCalls(o.calls) = <<Call("deleteNote", o.existing.id),
                                       Call("createNote", o.item)>>

C3_ChangeDetected ==
    (/\ run > 1
     /\ ImportReturned
     /\ prev.returned
     /\ prev.clean
     /\ prev.mutated # <<>>
     /\ SamePairsAsBefore
     /\ \E k \in 1..Len(Pairs) : Pairs[k].parsedBook.title = prev.mutated
     /\ Len(report.failed) = 0)
    => /\ report.notesUpdated = 1
       /\ \A k \in 1..Len(Pairs) :
             IF outcomes[k].title = prev.mutated
             THEN /\ outcomes[k].result = "updated"
                  /\ StoredReadable(outcomes[k])
                        => outcomes[k].existing.html.meta.hash # outcomes[k].current.hash
             ELSE outcomes[k].result = "skipped"

\* C4: a throw while one document is processed leaves exactly one entry for
\* that document in failed, every later document is still processed, and
\* importAll returns its report: it never throws once the loops have begun.
C4_FailureIsolation ==
    LET threw == SelectSeq(outcomes, LAMBDA o : o.result = "threw")
    IN /\ Len(report.failed) = Len(threw)
       /\ \A k \in 1..Len(threw) : report.failed[k].title = threw[k].title
       /\ \A k \in 1..Len(outcomes) : outcomes[k].title = WorkTitles[k]
       /\ ImportReturned => Len(outcomes) = Len(WorkTitles)
       /\ pc = "rejected" => Len(outcomes) = 0

\* a run has returned in which the first document failed and a later one did not
C4_Witness ==
    /\ ImportReturned
    /\ Len(outcomes) > 1
    /\ outcomes[1].result = "threw"
    /\ outcomes[Len(outcomes)].result # "threw"

\* C5: onProgress is called once per document, after the document's outcome
\* is in the report, with done = 1, 2, ..., total and the same total
\* |matched| + |confirmed| + |lookupResults| in every call.
C5_ProgressPerDocument ==
    /\ Len(progress) = Len(outcomes)
    /\ \A k \in 1..Len(progress) :
          /\ progress[k].done = k
          /\ progress[k].total = Len(WorkTitles)
          /\ progress[k].title = WorkTitles[k]
          /\ progress[k].accounted = k
    /\ ImportReturned => Len(progress) = Len(WorkTitles)

\* a run over two documents has returned and one of them had failed
C5_Witness ==
    /\ ImportReturned
    /\ Len(progress) = 2
    /\ Len(report.failed) = 1

\* C6: once the cancel flag is set, no catalog-mutating call (addToCollection,
\* deleteNote, createNote, createBook) is issued.
C6_NoWriteAfterCancel ==
    \A k \in 1..Len(calls) : calls[k].op \in MutatingOps => ~calls[k].afterCancel

(***************************************************************************)
(* Claims about the matcher                                                *)
(***************************************************************************)
MatchReturned == pc = "review"

\* how often a document occurs in a bucket
CountIn(bucket, d) == Cardinality({ k \in 1..Len(bucket) : bucket[k].parsedBook = d })

\* the scores of document d against the catalog item at position i
TitleScoreOf(d, i) ==
    titleSimilarity(tokenize(d.title), tokenize(zoteroItems[i].title))

AuthorTokensOf(d) == tokenize(Join(d.authors, <<chSpace>>))

ItemAuthorTokens(i) == tokenize(Join(getZoteroAuthors(zoteroItems[i]), <<chSpace>>))

AuthorScoreOf(d, i) ==
    IF AuthorTokensOf(d) = {} THEN <<0, 1>>
    ELSE diceCoefficient(AuthorTokensOf(d), ItemAuthorTokens(i))

IsCandidate(d, i) == ratGE(TitleScoreOf(d, i), <<60, 100>>)

CandidatesOf(d) == { i \in 1..Len(zoteroItems) : IsCandidate(d, i) }

\* item i ranks strictly above item j for d: a higher titleScore, or the same
\* titleScore and a higher authorScore
Outranks(d, i, j) ==
    \/ ratGT(TitleScoreOf(d, i), TitleScoreOf(d, j))
    \/ /\ ratEQ(TitleScoreOf(d, i), TitleScoreOf(d, j))
       /\ ratGT(AuthorScoreOf(d, i), AuthorScoreOf(d, j))

TopRanked(d, i) ==
    /\ i \in CandidatesOf(d)
    /\ \A j \in CandidatesOf(d) : ~Outranks(d, j, i)

\* C7: every document classified so far is in exactly one of matched,
\* ambiguous and unmatched, exactly once, no other document is in any of them,
\* and what is returned holds as many entries as there are documents.
C7_Partition ==
    /\ \A k \in 1..Len(parsedBooks) :
          CountIn(matched, parsedBooks[k]) + CountIn(ambiguous, parsedBooks[k])
             + CountIn(unmatched, parsedBooks[k])
          = IF k <= mi THEN 1 ELSE 0
    /\ Len(matched) + Len(ambiguous) + Len(unmatched) = mi
    /\ MatchReturned
          => /\ matchResult = [matched |-> matched, ambiguous |-> ambiguous,
                               unmatched |-> unmatched]
             /\ Len(matchResult.matched) + Len(matchResult.ambiguous)
                   + Len(matchResult.unmatched) = Len(parsedBooks)

\* the matcher has returned a result in which each bucket holds a document
C7_Witness ==
    /\ MatchReturned
    /\ Len(matchResult.matched) > 0
    /\ Len(matchResult.ambiguous) > 0
    /\ Len(matchResult.unmatched) > 0

\* a document is Matched iff a top-ranked candidate has titleScore >= 0.85
\* and (the document has no author tokens or authorScore >= 0.50); the entry
\* names a top-ranked candidate and carries its two scores
MatchedIffConfident ==
    /\ \A k \in 1..mi :
          LET d == parsedBooks[k]
          IN CountIn(matched, d) > 0
             <=> \E i \in 1..Len(zoteroItems) :
                    /\ TopRanked(d, i)
                    /\ ratGE(TitleScoreOf(d, i), <<85, 100>>)
                    /\ \/ AuthorTokensOf(d) = {}
                       \/ ratGE(AuthorScoreOf(d, i), <<50, 100>>)
    /\ \A k \in 1..Len(matched) :
          /\ TopRanked(matched[k].parsedBook, matched[k].zoteroItem)
          /\ ratEQ(matched[k].titleScore,
                   TitleScoreOf(matched[k].parsedBook, matched[k].zoteroItem))
          /\ ratEQ(matched[k].authorScore,
                   AuthorScoreOf(matched[k].parsedBook, matched[k].zoteroItem))

\* C8 as stated: Matched iff confident, and a document that has authors is
\* never Matched to a catalog item with an empty author list.
C8_AuthorsNeverMatchEmpty ==
    /\ MatchedIffConfident
    /\ \A k \in 1..Len(matched) :
          Len(matched[k].parsedBook.authors) > 0
          => Len(zoteroItems[matched[k].zoteroItem].creators) > 0

\* C8 as amended: Matched iff confident, and a document whose authors yield
\* at least one token is never Matched to a catalog item with an empty author
\* list.
C8_AuthorTokensNeverMatchEmpty ==
    /\ MatchedIffConfident
    /\ \A k \in 1..Len(matched) :
          AuthorTokensOf(matched[k].parsedBook) # {}
          => Len(zoteroItems[matched[k].zoteroItem].creators) > 0

\* an author-less document is Matched to an item that has authors, and a
\* document with author tokens was kept from a title match of 0.85 or more
C8_Witness ==
    /\ \E k \in 1..Len(matched) :
          /\ Len(matched[k].parsedBook.authors) = 0
          /\ Len(zoteroItems[matched[k].zoteroItem].creators) > 0
    /\ \E k \in 1..Len(ambiguous) :
          /\ AuthorTokensOf(ambiguous[k].parsedBook) # {}
          /\ ratGE(ambiguous[k].candidates[1].titleScore, <<85, 100>>)

\* C9: a document is New iff no catalog item has titleScore >= 0.60 against
\* it; with an empty catalog every document is New and matched and ambiguous
\* are empty.
C9_NewIffNoCandidate ==
    /\ \A k \in 1..mi :
          CountIn(unmatched, parsedBooks[k]) > 0
          <=> \A i \in 1..Len(zoteroItems) :
                 ~ratGE(TitleScoreOf(parsedBooks[k], i), <<60, 100>>)
    /\ Len(zoteroItems) = 0
          => /\ matched = <<>>
             /\ ambiguous = <<>>
             /\ Len(unmatched) = mi

\* against a catalog that is not empty one document is New and another is not
C9_Witness ==
    /\ MatchReturned
    /\ Len(zoteroItems) > 0
    /\ Len(unmatched) > 0
    /\ Len(unmatched) < Len(parsedBooks)

\* C10: a NeedsReview outcome carries min(5, n) >= 1 candidates, n the number
\* of catalog items with titleScore >= 0.60; each candidate is one of them with
\* its two scores; they are in titleScore-descending order, authorScore
\* descending among equal titleScores; and no item left out ranks above one
\* that is listed.
C10_ReviewCandidates ==
    \A k \in 1..Len(ambiguous) :
       LET d == ambiguous[k].parsedBook
           c == ambiguous[k].candidates
           listed == { c[x].zoteroItem : x \in 1..Len(c) }
       IN /\ Len(c) >= 1
          /\ Len(c) <= 5
          /\ Len(c) = Min(5, Cardinality(CandidatesOf(d)))
          /\ Cardinality(listed) = Len(c)
          /\ \A x \in 1..Len(c) :
                /\ c[x].zoteroItem \in CandidatesOf(d)
                /\ ratGE(c[x].titleScore, <<60, 100>>)
                /\ ratEQ(c[x].titleScore, TitleScoreOf(d, c[x].zoteroItem))
                /\ ratEQ(c[x].authorScore, AuthorScoreOf(d, c[x].zoteroItem))
          /\ \A x \in 1..(Len(c) - 1) :
                ~Outranks(d, c[x + 1].zoteroItem, c[x].zoteroItem)
          /\ \A i \in CandidatesOf(d) \ listed :
                \A x \in 1..Len(c) : ~Outranks(d, i, c[x].zoteroItem)

\* six catalog items are candidates and five are listed, the first with a
\* higher titleScore than the last, whose titleScore is exactly 0.60
C10_Witness ==
    \E k \in 1..Len(ambiguous) :
       /\ Cardinality(CandidatesOf(ambiguous[k].parsedBook)) = 6
       /\ Len(ambiguous[k].candidates) = 5
       /\ ratGT(ambiguous[k].candidates[1].titleScore,
                ambiguous[k].candidates[5].titleScore)
       /\ ratEQ(ambiguous[k].candidates[5].titleScore, <<60, 100>>)

(***************************************************************************)
(* Claims about the matcher on an identical document and catalog item      *)
(* (SpecExact).                                                            *)
(***************************************************************************)
\* the author strings of a catalog item as its creators spell them
CreatorNames(item) ==
    [k \in 1..Len(item.creators) |->
        IF item.creators[k].firstName = <<>> THEN item.creators[k].lastName
        ELSE IF item.creators[k].lastName = <<>> THEN item.creators[k].firstName
        ELSE item.creators[k].firstName \o <<chSpace>> \o item.creators[k].lastName]

\* the catalog holds one item, with the title and the authors of the one document
IdenticalPair ==
    /\ Len(parsedBooks) = 1
    /\ Len(zoteroItems) = 1
    /\ zoteroItems[1].title = parsedBooks[1].title
    /\ CreatorNames(zoteroItems[1]) = parsedBooks[1].authors

\* C11: when the catalog holds a single item whose title and author list are
\* those of the document, matching that document returns exactly one Matched
\* entry, pairing the document with that item, no NeedsReview entry and no
\* New entry.
C11_ExactMatch ==
    (MatchReturned /\ IdenticalPair) =>
        /\ Len(matched) = 1
        /\ matched[1].parsedBook = parsedBooks[1]
        /\ matched[1].zoteroItem = 1
        /\ ambiguous = <<>>
        /\ unmatched = <<>>
        /\ matchResult = [matched |-> matched, ambiguous |-> <<>>, unmatched |-> <<>>]

\* the matcher has returned for a document of two authors, one of them with a
\* first and a last name, and a title that gives tokens
C11_Witness ==
    /\ MatchReturned
    /\ IdenticalPair
    /\ Len(parsedBooks[1].authors) = 2
    /\ parsedBooks[1].authors[1] = ExactPeople.abcbAn.name
    /\ tokenize(parsedBooks[1].title) # {}
    /\ Len(matched) = 1
(***************************************************************************)
(* Claims about the similarity functions (SpecSim).                        *)
(***************************************************************************)
\* a number between 0 and 1, as a fraction
InUnitInterval(r) == r[2] > 0 /\ r[1] >= 0 /\ r[1] <= r[2]

ratMax(r, q) == IF ratGE(r, q) THEN r ELSE q

\* 2*|A n B| / (|A|+|B|), 1 for two empty sets and 0 for one
DiceOf(A, B) ==
    IF A = {} /\ B = {} THEN <<1, 1>>
    ELSE IF A = {} \/ B = {} THEN <<0, 1>>
    ELSE <<2 * Cardinality(A \cap B), Cardinality(A) + Cardinality(B)>>

\* 0.9 * |S n L| / |S| over the smaller set S, 0 when S is empty
ContainmentOf(A, B) ==
    LET small == Min(Cardinality(A), Cardinality(B))
    IN IF small = 0 THEN <<0, 1>> ELSE <<9 * Cardinality(A \cap B), 10 * small>>

\* the smaller set is not empty and lies in the larger
SmallerContained ==
    /\ simA # {}
    /\ simB # {}
    /\ \/ Cardinality(simA) <= Cardinality(simB) /\ simA \subseteq simB
       \/ Cardinality(simB) <= Cardinality(simA) /\ simB \subseteq simA

\* C12: titleSimilarity(A,B) is the larger of the Dice coefficient and
\* 0.9 * |S n L| / |S| over the smaller set S (0 when S is empty); it lies in
\* [0,1], it is the same for (B,A), and when the smaller set is not empty and
\* contained in the larger it is at least 0.9, hence at least the 0.60 of a
\* candidate.
C12_TitleSimilarity ==
    simResult.op = "titleSimilarity" =>
        /\ ratEQ(simResult.value, ratMax(DiceOf(simA, simB), ContainmentOf(simA, simB)))
        /\ InUnitInterval(simResult.value)
        /\ ratEQ(simResult.value, titleSimilarity(simB, simA))
        /\ SmallerContained =>
              /\ ratGE(simResult.value, <<9, 10>>)
              /\ ratGE(simResult.value, <<60, 100>>)

\* titleSimilarity was called on a set of one token and a set of three that
\* holds it: the Dice coefficient is 1/2, the result 0.9
C12_Witness ==
    /\ simResult.op = "titleSimilarity"
    /\ Cardinality(simA) = 1
    /\ Cardinality(simB) = 3
    /\ simA \subseteq simB
    /\ ratEQ(simResult.value, <<9, 10>>)
    /\ ratEQ(DiceOf(simA, simB), <<1, 2>>)

\* C13: diceCoefficient(A,B) is 2*|A n B| / (|A|+|B|) for two non-empty sets,
\* 1 for two empty sets and 0 when exactly one is empty; so it is 1 for
\* (A,A), the empty set included, and always within [0,1].
C13_DiceCoefficient ==
    simResult.op = "diceCoefficient" =>
        /\ (simA # {} /\ simB # {}) =>
              ratEQ(simResult.value,
                    <<2 * Cardinality(simA \cap simB), Cardinality(simA) + Cardinality(simB)>>)
        /\ (simA = {} /\ simB = {}) => ratEQ(simResult.value, <<1, 1>>)
        /\ ((simA = {}) # (simB = {})) => ratEQ(simResult.value, <<0, 1>>)
        /\ simA = simB => ratEQ(simResult.value, <<1, 1>>)
        /\ InUnitInterval(simResult.value)

\* diceCoefficient was called on the empty set and itself and gave 1
C13_Witness ==
    /\ simResult.op = "diceCoefficient"
    /\ simA = {}
    /\ simB = {}
    /\ ratEQ(simResult.value, <<1, 1>>)
(***************************************************************************)
(* Claims about the clippings parser (SpecParse).  The raw entry at        *)
(* position i of the file is the block written from blockSpecs[i]; the     *)
(* last raw entry is what follows the last separator line.                 *)
(***************************************************************************)
ParseReturned == ppc = "returned"

\* the blocks gone through so far
Parsed == 1..Min(Len(parseLog), Len(blockSpecs))

\* all clips of the books
AllClips ==
    UNION { { bookMap[k].highlights[n] : n \in 1..Len(bookMap[k].highlights) }
            \cup { bookMap[k].notes[n] : n \in 1..Len(bookMap[k].notes) } :
            k \in 1..Len(bookMap) }

\* C14: no entry of a document's highlights or notes has kind bookmark, and a
\* block whose metadata line names the kind Bookmark, in any letter case,
\* adds no annotation, creates no document and raises skipped by exactly one.
C14_BookmarksSkipped ==
    /\ \A c \in AllClips : c.type # "bookmark"
    /\ \A k \in 1..Len(bookMap) :
          /\ \A n \in 1..Len(bookMap[k].highlights) :
                bookMap[k].highlights[n].type = "highlight"
          /\ \A n \in 1..Len(bookMap[k].notes) : bookMap[k].notes[n].type = "note"
    /\ \A i \in Parsed :
          blockSpecs[i].kind = "bookmark" =>
              /\ parseLog[i].after.clips = parseLog[i].before.clips
              /\ parseLog[i].after.books = parseLog[i].before.books
              /\ parseLog[i].after.skipped = parseLog[i].before.skipped + 1

\* the parser has returned for a file with a bookmark block written
\* "BOOKMARK" with a page, a location and a body, between two highlights
C14_Witness ==
    /\ ParseReturned
    /\ Len(blockSpecs) = 3
    /\ blockSpecs[1] = ParseBlocks.hA3
    /\ blockSpecs[2] = ParseBlocks.bkPage
    /\ blockSpecs[3] = ParseBlocks.hA1
    /\ parseLog[2].outcome = "skipped"
    /\ skipped = 1
    /\ Len(bookMap) = 1
    /\ Len(bookMap[1].highlights) = 2

\* C15: a block whose metadata line names Highlight or Note and gives a
\* location but no page ("- Your Highlight on Location s-e | Added on ..."),
\* with a body, gives one annotation with page null, locationStart s and
\* locationEnd e, and is not skipped.
C15_PageOptional ==
    \A i \in Parsed :
        ( /\ blockSpecs[i].shape = "entry"
          /\ blockSpecs[i].kind \in {"highlight", "note"}
          /\ blockSpecs[i].page = NoNum
          /\ blockSpecs[i].locationStart # NoNum
          /\ Len(blockSpecs[i].body) > 0 ) =>
            /\ parseLog[i].outcome = "clip"
            /\ parseLog[i].clip.page = NoNum
            /\ parseLog[i].clip.locationStart = blockSpecs[i].locationStart
            /\ parseLog[i].clip.locationEnd = blockSpecs[i].locationEnd
\* what a block was written to say: the title with single spaces between its
\* words, the authors as "First Last", the body lines joined by spaces
WrittenTitle(b) == Join(b.words, <<chSpace>>)

WrittenAuthors(b) ==
    [k \in 1..Len(b.pieces) |->
        IF b.pieces[k].first = <<>> THEN b.pieces[k].last
        ELSE b.pieces[k].first \o <<chSpace>> \o b.pieces[k].last]

WrittenText(b) == Join(b.body, <<chSpace>>)

\* the written title with its first full-width colon as ":"
ColonTitle(b) ==
    LET t == WrittenTitle(b)
        colons == { k \in 1..Len(t) : t[k] \in {chFullwidthColon, chSmallColon} }
    IN [k \in 1..Len(t) |->
           IF k \in colons /\ \A n \in colons : k <= n THEN chColon ELSE t[k]]

\* title line "T (A1;A2;...)" or "T", kind Highlight, a page, a location
\* s-e and a body
WellFormed(b) ==
    /\ b.shape = "entry"
    /\ b.kind = "highlight"
    /\ b.page # NoNum
    /\ b.locationStart # NoNum
    /\ b.locationEnd # NoNum
    /\ Len(b.body) > 0

\* the highlight a well-formed block is written to give
WrittenHighlight(b, clip) ==
    /\ clip.type = "highlight"
    /\ clip.page = b.page
    /\ clip.locationStart = b.locationStart
    /\ clip.locationEnd = b.locationEnd
    /\ clip.text = WrittenText(b)

\* C16 as stated: a well-formed block gives a document whose title is the
\* written title trimmed and with white space collapsed, whose authors are
\* the pieces in their order, "Last, First" turned to "First Last", and one
\* highlight with the page, the location and the body lines joined by single
\* spaces; a title line without parenthetical gives no authors.
C16_WellFormedBlock ==
    /\ \A i \in Parsed :
          WellFormed(blockSpecs[i]) =>
              /\ parseLog[i].outcome = "clip"
              /\ parseLog[i].book.title = WrittenTitle(blockSpecs[i])
              /\ parseLog[i].book.authors = WrittenAuthors(blockSpecs[i])
              /\ WrittenHighlight(blockSpecs[i], parseLog[i].clip)
    /\ \A i \in Parsed :
          (parseLog[i].outcome = "clip" /\ Len(blockSpecs[i].pieces) = 0) =>
              parseLog[i].book.authors = <<>>

\* C16 as the code has it: the same for a well-formed block whose body is
\* not the restriction placeholder, the title being the written title with
\* white space collapsed and its first full-width colon turned into ":"; a
\* file of that one block gives one document with that one highlight.
C16_WellFormedBlockNormalized ==
    /\ \A i \in Parsed :
          (WellFormed(blockSpecs[i]) /\ blockSpecs[i].body # <<RestrictedText>>) =>
              /\ parseLog[i].outcome = "clip"
              /\ parseLog[i].book.title = ColonTitle(blockSpecs[i])
              /\ parseLog[i].book.authors = WrittenAuthors(blockSpecs[i])
              /\ WrittenHighlight(blockSpecs[i], parseLog[i].clip)
              /\ (ParseReturned /\ Len(blockSpecs) = 1) =>
                    /\ Len(bookMap) = 1
                    /\ bookMap[1].title = ColonTitle(blockSpecs[i])
                    /\ bookMap[1].authors = WrittenAuthors(blockSpecs[i])
                    /\ Len(bookMap[1].highlights) = 1
                    /\ WrittenHighlight(blockSpecs[i], bookMap[1].highlights[1])
                    /\ bookMap[1].notes = <<>>
    /\ \A i \in Parsed :
          (parseLog[i].outcome = "clip" /\ Len(blockSpecs[i].pieces) = 0) =>
              parseLog[i].book.authors = <<>>

\* the parser has returned for the one block "ab c (ab, An;c)" with page 2,
\* location 3-4 and the body "ab"
C16_Witness ==
    /\ ParseReturned
    /\ blockSpecs = <<ParseBlocks.hA3>>
    /\ Len(bookMap) = 1
    /\ bookMap[1].authors =
          <<MatchAuthors.An \o <<chSpace>> \o MatchAuthors.ab, <<Letter.c>>>>
    /\ bookMap[1].highlights[1].locationEnd = 4
\* the blocks that gave an annotation
Accepted == { i \in Parsed : parseLog[i].outcome = "clip" }

\* lowercase(collapsed title) + "::" + sorted lowercase authors joined by ","
KeyOf(b) ==
    toLowerCase(ColonTitle(b)) \o <<chColon, chColon>>
    \o Join(sortStrings([k \in 1..Len(b.pieces) |-> toLowerCase(WrittenAuthors(b)[k])]),
            <<chComma>>)

\* the accepted blocks that went into the record at position k, in the order
\* of the file, all of them or those of one type
BlocksOf(k) == { i \in Accepted : parseLog[i].into = k }

FirstBlockOf(k) == CHOOSE i \in BlocksOf(k) : \A j \in BlocksOf(k) : i <= j

RECURSIVE ClipsInOrder(_, _, _)
ClipsInOrder(k, type, upTo) ==
    IF upTo = 0 THEN <<>>
    ELSE IF upTo \in BlocksOf(k) /\ parseLog[upTo].clip.type = type
    THEN Append(ClipsInOrder(k, type, upTo - 1), parseLog[upTo].clip)
    ELSE ClipsInOrder(k, type, upTo - 1)

\* how often a clip is in a list
Occurrences(list, c) == Cardinality({ n \in 1..Len(list) : list[n] = c })

SameClips(list, other) ==
    /\ Len(list) = Len(other)
    /\ \A n \in 1..Len(list) : Occurrences(list, list[n]) = Occurrences(other, list[n])

\* C17: two accepted blocks go into the same record exactly when their keys
\* (lower-case collapsed title, "::", sorted lower-case authors joined by ",")
\* are equal; there is one record per key; a record's lists hold the
\* annotations of all its blocks; its title, rawTitle and authors are those
\* of the first block with its key.
C17_MergeByKey ==
    /\ \A i, j \in Accepted :
          (parseLog[i].into = parseLog[j].into) <=> (KeyOf(blockSpecs[i]) = KeyOf(blockSpecs[j]))
    /\ Len(bookMap) = Cardinality({ KeyOf(blockSpecs[i]) : i \in Accepted })
    /\ \A k \in 1..Len(bookMap) :
          /\ BlocksOf(k) # {}
          /\ bookMap[k].key = KeyOf(blockSpecs[FirstBlockOf(k)])
          /\ bookMap[k].title = ColonTitle(blockSpecs[FirstBlockOf(k)])
          /\ bookMap[k].rawTitle = TitleLineOf(blockSpecs[FirstBlockOf(k)])
          /\ bookMap[k].authors = WrittenAuthors(blockSpecs[FirstBlockOf(k)])
          /\ SameClips(bookMap[k].highlights, ClipsInOrder(k, "highlight", Len(parseLog)))
          /\ SameClips(bookMap[k].notes, ClipsInOrder(k, "note", Len(parseLog)))

\* the parser has returned one record for "AB  c (C;an AB)" followed by
\* "ab c (ab, An;c)", with the title and the authors of the first, and
\* another record for "ab c"
C17_Witness ==
    /\ ParseReturned
    /\ blockSpecs = <<ParseBlocks.hB3, ParseBlocks.nA3, ParseBlocks.hCpage>>
    /\ Len(bookMap) = 2
    /\ bookMap[1].title = <<65, 66, chSpace, Letter.c>>
    /\ bookMap[1].authors = <<<<67>>, <<Letter.a, Letter.n, chSpace, 65, 66>>>>
    /\ Len(bookMap[1].highlights) = 1
    /\ Len(bookMap[1].notes) = 1
    /\ bookMap[2].authors = <<>>
\* locationStart, else page, else 0
SortKey(c) ==
    IF c.locationStart # NoNum THEN c.locationStart
    ELSE IF c.page # NoNum THEN c.page
    ELSE 0

Ascending(list) ==
    \A m, n \in 1..Len(list) : m < n => SortKey(list[m]) <= SortKey(list[n])

WithKey(list, v) == SelectSeq(list, LAMBDA c : SortKey(c) = v)

\* the clips of equal key are in the list in the order of their blocks
TiesInFileOrder(list, inOrder) ==
    \A n \in 1..Len(list) :
        WithKey(list, SortKey(list[n])) = WithKey(inOrder, SortKey(list[n]))

\* C18: in the result every document's highlights and notes are each sorted
\* ascending by locationStart, else page, else 0, whatever the order of the
\* blocks in the file, and annotations of equal key are in the order of
\* their blocks.
C18_SortedStable ==
    ParseReturned =>
        \A k \in 1..Len(bookMap) :
            /\ Ascending(bookMap[k].highlights)
            /\ Ascending(bookMap[k].notes)
            /\ TiesInFileOrder(bookMap[k].highlights,
                               ClipsInOrder(k, "highlight", Len(parseLog)))
            /\ TiesInFileOrder(bookMap[k].notes, ClipsInOrder(k, "note", Len(parseLog)))

\* the parser has returned for three highlights of one document written in
\* the order location 3 (page 2), location 3 with another text, location 1
\* (page 5): the last comes first, the two of location 3 keep their order
C18_Witness ==
    /\ ParseReturned
    /\ blockSpecs = <<ParseBlocks.hB3, ParseBlocks.hA3, ParseBlocks.hA1>>
    /\ Len(bookMap) = 1
    /\ bookMap[1].highlights[1].text = <<Letter.c>>
    /\ bookMap[1].highlights[2].text = <<Letter.b, Letter.A, chSpace, Letter.a, Letter.b>>
    /\ bookMap[1].highlights[3].text = MatchAuthors.ab

\* a block that is not all white space
NonBlank(i) == i <= Len(blockSpecs) /\ blockSpecs[i].shape # "blank"

\* a block written to be left out: a bookmark, a title line alone, no body,
\* the restriction placeholder
WrittenToSkip(b) ==
    \/ b.kind = "bookmark"
    \/ b.shape = "titleOnly"
    \/ b.shape = "entry" /\ Len(b.body) = 0
    \/ b.shape = "entry" /\ b.body = <<RestrictedText>>

Delta(entry, field) == entry.after[field] - entry.before[field]

\* C19: every non-blank block either adds exactly one annotation, or raises
\* skipped by one, or appends one entry to errors, and nothing else; blank
\* blocks change nothing; so highlights + notes + skipped + errors is the
\* number of non-blank blocks, errors are not counted in skipped, and every
\* block of the file is gone through before parseClippings returns.
C19_EveryBlockAccounted ==
    /\ \A i \in 1..Len(parseLog) :
          IF NonBlank(i)
          THEN /\ <<Delta(parseLog[i], "clips"), Delta(parseLog[i], "skipped"),
                     Delta(parseLog[i], "errors")>>
                      \in { <<1, 0, 0>>, <<0, 1, 0>>, <<0, 0, 1>> }
               /\ WrittenToSkip(blockSpecs[i]) => Delta(parseLog[i], "skipped") = 1
          ELSE parseLog[i].after = parseLog[i].before
    /\ \A i \in 2..Len(parseLog) : parseLog[i].before = parseLog[i - 1].after
    /\ totalClips(bookMap) + skipped + Len(errors)
          = Cardinality({ i \in 1..Len(parseLog) : NonBlank(i) })
    /\ ParseReturned => Len(parseLog) = Len(blockSpecs) + 1

\* the parser has returned for a note, a title line alone and a blank block:
\* one annotation, one skipped, two non-blank blocks
C19_Witness ==
    /\ ParseReturned
    /\ blockSpecs = <<ParseBlocks.nA3, ParseBlocks.titleOnly, ParseBlocks.blank>>
    /\ totalClips(bookMap) = 1
    /\ skipped = 1
    /\ errors = <<>>
(***************************************************************************)
(* Claims about the metadata lookup (SpecLookup).                          *)
(***************************************************************************)
LookupReturned == lkpc = "returned"

\* the best title score among the entries of an answer, none for an answer
\* without entries
ScoreOf(title, entry) ==
    LET A == tokenize(title)
        B == tokenize(entry.title)
    IN ratMax(DiceOf(A, B), ContainmentOf(A, B))

Clears(request) ==
    /\ request.response.kind = "ok"
    /\ \E k \in 1..Len(request.response.items) :
          ratGE(ScoreOf(request.title, request.response.items[k]), <<55, 100>>)

\* the attempts in their order: Google Books with title and first author,
\* Google Books with the title alone, Open Library; a book without author
\* has no second Google Books attempt
AttemptOrder ==
    LET author == IF lkBook.authors = <<>> THEN <<>> ELSE lkBook.authors[1]
    IN IF author = <<>>
       THEN <<[api |-> "google", author |-> <<>>],
              [api |-> "openlibrary", author |-> <<>>]>>
       ELSE <<[api |-> "google", author |-> author],
              [api |-> "google", author |-> <<>>],
              [api |-> "openlibrary", author |-> author]>>

\* C20: the requests are made in the order Google Books title+first author,
\* Google Books title only, Open Library; no request follows an answer whose
\* best entry scores at least 0.55; lookupBook returns the best entry of the
\* first such answer, with that score as confidence, and the record built
\* from the file when all answers fall short; a returned record of source
\* google or openlibrary has confidence at least 0.55.
C20_LookupOrder ==
    /\ Len(lkRequests) <= Len(AttemptOrder)
    /\ \A i \in 1..Len(lkRequests) :
          /\ lkRequests[i].api = AttemptOrder[i].api
          /\ lkRequests[i].author = AttemptOrder[i].author
          /\ lkRequests[i].title = lkBook.title
          /\ i < Len(lkRequests) => ~Clears(lkRequests[i])
    /\ (~LookupReturned /\ Len(lkRequests) > 0) => ~Clears(lkRequests[Len(lkRequests)])
    /\ LookupReturned =>
          LET last == lkRequests[Len(lkRequests)]
          IN IF Clears(last)
             THEN /\ lkResult.source = last.api
                  /\ ratGE(lkResult.confidence, <<55, 100>>)
                  /\ \E k \in 1..Len(last.response.items) :
                        /\ lkResult.title = last.response.items[k].title
                        /\ ratEQ(lkResult.confidence,
                                 ScoreOf(last.title, last.response.items[k]))
                        /\ \A m \in 1..Len(last.response.items) :
                              ratGE(lkResult.confidence,
                                    ScoreOf(last.title, last.response.items[m]))
             ELSE /\ Len(lkRequests) = Len(AttemptOrder)
                  /\ lkResult.source = "kindle"
    /\ lkResult.source \in {"google", "openlibrary"} =>
          ratGE(lkResult.confidence, <<55, 100>>)

\* lookupBook has returned an Open Library record after a Google Books
\* answer whose best entry scored 0.45 and a second one without entries
C20_Witness ==
    /\ LookupReturned
    /\ Len(lkRequests) = 3
    /\ lkRequests[1].response.kind = "ok"
    /\ Len(lkRequests[1].response.items) = 1
    /\ ratEQ(ScoreOf(lkBook.title, lkRequests[1].response.items[1]), <<45, 100>>)
    /\ lkRequests[2].response = [kind |-> "ok", items |-> <<>>]
    /\ lkResult.source = "openlibrary"
    /\ ratEQ(lkResult.confidence, <<60, 100>>)

\* the answer of a request is a failure of the service: http(url) or
\* res.json() rejected, the response was not ok, or the body has no list
Failed(request) == request.response.kind \in {"throws", "notOk", "badJson", "noList"}

\* C21: lookupBook never rejects; a request that failed is followed by the
\* next attempt; when no answer holds an entry scoring at least 0.55 every
\* attempt has been made and the returned record is the fallback: the book's
\* own title and authors, publisher, year, isbn, language and numPages null,
\* confidence 0, source kindle; a returned confidence of 0 comes with the
\* source kindle only.
C21_NeverRejects ==
    /\ lkpc # "rejected"
    /\ \A i \in 1..Len(lkRequests) :
          (Failed(lkRequests[i]) /\ i < Len(AttemptOrder))
              => (LookupReturned => Len(lkRequests) > i)
    /\ (LookupReturned /\ \A i \in 1..Len(lkRequests) : ~Clears(lkRequests[i]))
          => /\ Len(lkRequests) = Len(AttemptOrder)
             /\ lkResult = [title |-> lkBook.title, authors |-> lkBook.authors,
                            publisher |-> null, year |-> null, isbn |-> null,
                            language |-> null, numPages |-> null,
                            source |-> "kindle", confidence |-> <<0, 1>>]
    /\ (LookupReturned /\ ratEQ(lkResult.confidence, <<0, 1>>))
          => /\ lkResult.source = "kindle"
             /\ \A i \in 1..Len(lkRequests) : ~Clears(lkRequests[i])

\* lookupBook has returned the fallback for a book with an author after
\* http(url) rejected, res.json() rejected, and a response was not ok
C21_Witness ==
    /\ LookupReturned
    /\ Len(lkBook.authors) > 0
    /\ Len(lkRequests) = 3
    /\ lkRequests[1].response.kind = "throws"
    /\ lkRequests[2].response.kind = "badJson"
    /\ lkRequests[3].response.kind = "notOk"
    /\ lkResult.source = "kindle"

(***************************************************************************)
(* Claims about the batch lookup (SpecBatch).                              *)
(***************************************************************************)
BatchReturned == bpc = "returned"

\* the position in batchLog of the event op of book i, 0 if there is none
PositionOf(op, i) ==
    IF \E p \in 1..Len(batchLog) : batchLog[p].op = op /\ batchLog[p].i = i
    THEN CHOOSE p \in 1..Len(batchLog) : batchLog[p].op = op /\ batchLog[p].i = i
    ELSE 0

ProgressCalls == SelectSeq(batchLog, LAMBDA e : e.op = "onProgress")

\* C22: the books are looked up one at a time in input order: the lookup of
\* book i+1 is called only after the lookup of book i has returned and its
\* onProgress call was made; there is one result per book, in input order;
\* onProgress is called with (i, total, title) for i = 1..total in that
\* order; needsReview of a result is (source = kindle) or confidence < 0.75.
C22_BatchInOrder ==
    /\ \A i \in 1..Len(unmatchedBooks) :
          /\ Cardinality({ p \in 1..Len(batchLog) :
                             batchLog[p].op = "lookupBook" /\ batchLog[p].i = i }) <= 1
          /\ PositionOf("onProgress", i) > 0
                => /\ PositionOf("lookupBook", i) > 0
                   /\ PositionOf("lookupBook", i) < PositionOf("returned", i)
                   /\ PositionOf("returned", i) < PositionOf("onProgress", i)
          /\ (i > 1 /\ PositionOf("lookupBook", i) > 0)
                => /\ PositionOf("onProgress", i - 1) > 0
                   /\ PositionOf("onProgress", i - 1) < PositionOf("lookupBook", i)
    /\ lkpc \notin {"idle", "returned"} =>
          /\ lkBook = unmatchedBooks[Len(results) + 1].parsedBook
          /\ Len(ProgressCalls) = Len(results)
    /\ Len(results) <= Len(unmatchedBooks)
    /\ \A k \in 1..Len(results) :
          /\ results[k].parsedBook = unmatchedBooks[k].parsedBook
          /\ results[k].needsReview =
                (\/ results[k].metadata.source = "kindle"
                 \/ ratGT(<<75, 100>>, results[k].metadata.confidence))
    /\ Len(ProgressCalls) = Len(results)
    /\ \A k \in 1..Len(ProgressCalls) :
          /\ ProgressCalls[k].done = k
          /\ ProgressCalls[k].total = Len(unmatchedBooks)
          /\ ProgressCalls[k].title = unmatchedBooks[k].parsedBook.title
    /\ BatchReturned => Len(results) = Len(unmatchedBooks)

\* a batch of two books has returned: the first found with confidence 0.6
\* and flagged for review, the second found with confidence 1 and not flagged
C22_Witness ==
    /\ BatchReturned
    /\ Len(results) = 2
    /\ results[1].metadata.source = "google"
    /\ ratEQ(results[1].metadata.confidence, <<60, 100>>)
    /\ results[1].needsReview
    /\ results[2].metadata.source = "openlibrary"
    /\ ~results[2].needsReview

(***************************************************************************)
(* Claims about the fingerprint (SpecFingerprint).                         *)
(***************************************************************************)
\* C23: computeFingerprint gives the same fingerprint for a book and for the
\* same book with its highlights and its notes listed in any other order,
\* annotations that share a location included, and the same fingerprint
\* when called again on the unchanged book.
C23_OrderIndependent ==
    fpResult.op = "computeFingerprint"
    => /\ fpResult.again = fpResult.first
       /\ fpResult.shuffled = fpResult.first

\* C24: for every book, parseNoteFingerprint on the text that buildNoteHTML
\* wrote gives the fingerprint computeFingerprint gives for the book: the
\* same count, hash and kindleKey.
C24_RoundTrip ==
    fpResult.op = "buildNoteHTML"
    => /\ ~fpResult.stored.isNull
       /\ fpResult.stored.count = computeFingerprint(fpBook).count
       /\ fpResult.stored.hash = computeFingerprint(fpBook).hash
       /\ fpResult.stored.kindleKey = computeFingerprint(fpBook).kindleKey

\* the words of a title: the runs between its white space
wordCount(title) ==
    Len(SelectSeq(splitWords(title, <<>>), LAMBDA w : Len(w) > 0))

\* C25: a document whose title has three words or fewer is Matched only if
\* its title score clears a bar higher than CONFIDENT_TITLE_THRESHOLD, the bar
\* of the documents with longer titles: its score is above that threshold
C25_ShortTitlesStricter ==
    \A k \in 1..Len(matched) :
        wordCount(matched[k].parsedBook.title) <= 3
            => ratGT(matched[k].titleScore, CONFIDENT_TITLE_THRESHOLD)

\* the documents of the first loop that attachNoteToExisting finished
Attached == { k \in 1..Len(outcomes) : outcomes[k].result \in {"added", "updated", "skipped"} }

\* the places of the calls named op in a call list
CallsOf(cs, op) == { i \in 1..Len(cs) : cs[i].op = op }

\* C26: every matched or confirmed item whose processing did not fail is a
\* member of the import collection, whatever its outcome; addToCollection for
\* the item comes before getKindleNote, and the collection id is the one
\* resolved by the single getOrCreateCollection call that precedes all items
C26_InImportCollection ==
    pc \in {"importing", "done", "dismissed"} =>
        /\ CallsOf(calls, "getOrCreateCollection") = {1}
        /\ importCollectionID = IMPORT_COLLECTION_NAME
        /\ \A k \in Attached :
              /\ <<outcomes[k].item, importCollectionID>> \in zotero.members
              /\ \E i \in CallsOf(outcomes[k].calls, "addToCollection") :
                    /\ outcomes[k].calls[i].target = outcomes[k].item
                    /\ \A j \in CallsOf(outcomes[k].calls, "getKindleNote") : i < j

\* importAll has returned after an item whose note was replaced and an item
\* whose document was skipped, both in the collection
C26_Witness ==
    /\ pc = "done"
    /\ \E k \in Attached : outcomes[k].result = "skipped"
    /\ \E k \in Attached : outcomes[k].result = "updated"
    /\ \A k \in Attached : <<outcomes[k].item, importCollectionID>> \in zotero.members

\* the catalog snapshot with the items at i and j exchanged
swapped(items, i, j) ==
    [k \in 1..Len(items) |->
        IF k = i THEN items[j] ELSE IF k = j THEN items[i] ELSE items[k]]

\* the bucket the loop body gives a book whose sorted candidates are scored
bucketOfScored(parsedBook, scored) ==
    IF Len(scored) = 0 THEN "unmatched"
    ELSE IF /\ ratGE(scored[1].titleScore, CONFIDENT_TITLE_THRESHOLD)
            /\ authorOk(tokenize(Join(parsedBook.authors, <<chSpace>>)), scored[1])
    THEN "matched"
    ELSE "ambiguous"

bucketOf(parsedBook, items) ==
    bucketOfScored(parsedBook, scoredCandidates(parsedBook, items))

\* the catalog record of the best candidate of a book that has candidates
pairedRecord(parsedBook, items) ==
    items[scoredCandidates(parsedBook, items)[1].zoteroItem]

\* every document keeps its bucket when two catalog items change places
SameBuckets(items) ==
    /\ \A k \in 1..Len(matched) : bucketOf(matched[k].parsedBook, items) = "matched"
    /\ \A k \in 1..Len(ambiguous) : bucketOf(ambiguous[k].parsedBook, items) = "ambiguous"
    /\ \A k \in 1..Len(unmatched) : bucketOf(unmatched[k].parsedBook, items) = "unmatched"

\* every Matched document keeps its catalog record
SamePairs(items) ==
    \A k \in 1..Len(matched) :
        bucketOf(matched[k].parsedBook, items) = "matched"
            => pairedRecord(matched[k].parsedBook, items)
                   = zoteroItems[matched[k].zoteroItem]

\* C27: for a fixed document map, exchanging two items of the catalog
\* snapshot changes neither the bucket of a document nor the catalog record
\* a Matched document is paired with, items of equal titleScore and
\* authorScore included
C27_CatalogOrderIndependent ==
    pc = "review" =>
        \A i, j \in 1..Len(zoteroItems) :
            /\ SameBuckets(swapped(zoteroItems, i, j))
            /\ SamePairs(swapped(zoteroItems, i, j))

\* the documents processed so far whose outcome is one of results
WithResult(rs) == { k \in 1..Len(outcomes) : outcomes[k].result \in rs }

\* the documents of lookupResults among the documents processed so far
FromLookup == { k \in 1..Len(outcomes) : k > Len(Pairs) }

\* C28: when importAll returns, notesAdded + notesUpdated + skipped + |failed|
\* = |matched| + |confirmed| + |lookupResults|, every document counted in
\* exactly one of the four, and booksCreated is the number of lookupResults
\* documents that did not fail, so booksCreated <= notesAdded
C28_ReportAccounting ==
    ImportReturned =>
        /\ report.notesAdded + report.notesUpdated + report.skipped + Len(report.failed)
              = Len(matchResult.matched) + Len(confirmedBooks) + Len(lookupResults)
        /\ report.notesAdded = Cardinality(WithResult({"added", "created"}))
        /\ report.notesUpdated = Cardinality(WithResult({"updated"}))
        /\ report.skipped = Cardinality(WithResult({"skipped"}))
        /\ Len(report.failed) = Cardinality(WithResult({"threw"}))
        /\ report.booksCreated = Cardinality(FromLookup \ WithResult({"threw"}))
        /\ report.booksCreated <= report.notesAdded

\* importAll has returned after a lookupResults document whose book was
\* created and a lookupResults document that failed
C28_Witness ==
    /\ ImportReturned
    /\ report.booksCreated > 0
    /\ \E k \in FromLookup : outcomes[k].result = "threw"

\* the catalog items and the books created so far
ItemsSoFar == 1..zotero.nextID

\* C29: from a catalog in which every item has at most one Kindle note, after
\* any sequence of importAll runs, collaborator failures included, every item
\* has at most one Kindle note
C29_AtMostOneNote ==
    \A itemID \in ItemsSoFar : Len(kindleNotesOf(zotero, itemID)) <= 1

\* a second run has returned: it replaced the note a first run left on an
\* item, and a write of one of the two runs failed
C29_Witness ==
    /\ run = MaxRuns
    /\ ImportReturned
    /\ \E k \in 1..Len(outcomes) :
          /\ outcomes[k].result = "updated"
          /\ outcomes[k].existing.html # LegacyHTML
          /\ Len(kindleNotesOf(zotero, outcomes[k].item)) = 1
    /\ \/ ~prev.clean
       \/ Len(report.failed) > 0

\* the ids of the book records of the catalog
BookIDs == { zotero.books[k].id : k \in 1..Len(zotero.books) }

\* C30: a document whose processing ended in a recorded failure left the
\* catalog as it was: a matched item that had a Kindle note still has one,
\* no book record was created for a document of lookupResults, and
\* booksCreated is the number of book records created during the run
C30_NoPartialWrites ==
    /\ \A k \in WithResult({"threw"}) :
          /\ outcomes[k].existed => Len(kindleNotesOf(zotero, outcomes[k].item)) > 0
          /\ k \in FromLookup => outcomes[k].item \notin BookIDs
    /\ report.booksCreated = Len(zotero.books)

====
